---- MODULE Spec2Model ----
(***************************************************************************)
(* Model of the VRS identifier library (src/src/generator.ts): chromosome  *)
(* canonicalisation, identifier generation, validation and parsing, with   *)
(* callers that apply the library functions to variants and identifiers.   *)
(*                                                                         *)
(* A string is a sequence of one-character strings: "chr7" is              *)
(* <<"c","h","r","7">>.  A JavaScript value whose type may vary (the       *)
(* position, the argument of isValidVrsId) is a record [t, s, n] built by  *)
(* Str, Num or Null.  tables is the content of the example's MockDatabase, *)
(* processed the variants its processVariants has worked on.               *)
(***************************************************************************)
EXTENDS Integers, Sequences, FiniteSets, TLC

VARIABLES variant, op, arg, ret, truncatedHash, b64Digest, tables, processed

vars == <<variant, op, arg, ret, truncatedHash, b64Digest, tables, processed>>

(***************************************************************************)
(* JavaScript values and string primitives                                 *)
(***************************************************************************)
Str(s) == [t |-> "string", s |-> s, n |-> 0]

Num(n) == [t |-> "number", s |-> <<>>, n |-> n]

Null == [t |-> "null", s |-> <<>>, n |-> 0]

\* !v for the values above: null and the empty string are falsy.
Falsy(v) == v.t = "null" \/ (v.t = "string" /\ v.s = <<>>)

\* String.prototype.startsWith
startsWith(s, p) == Len(s) >= Len(p) /\ SubSeq(s, 1, Len(p)) = p

\* String.prototype.substring(from), from counted from 0
substring(s, from) == SubSeq(s, from + 1, Len(s))

DecimalDigits == <<"0", "1", "2", "3", "4", "5", "6", "7", "8", "9">>

\* Number to string of a non-negative integer: its decimal digits.
RECURSIVE NumberToString(_)
NumberToString(n) ==
    IF n < 10 THEN <<DecimalDigits[n + 1]>>
    ELSE NumberToString(n \div 10) \o <<DecimalDigits[(n % 10) + 1]>>

\* Variant of Interpolate: a number is written with at least two digits.
Interpolate_padded(v) ==
    IF v.t = "number"
    THEN (IF v.n < 10 THEN <<"0">> ELSE <<>>) \o NumberToString(v.n)
    ELSE v.s

\* `${v}` inside a template literal
Interpolate(v) == IF v.t = "number" THEN NumberToString(v.n) ELSE v.s

\* Variant of ReplaceEvery: a pattern without the g flag replaces the first
\* occurrence only.
ReplaceEvery_first(s, c, d) ==
    [i \in 1..Len(s) |->
        IF s[i] = c /\ (\A j \in 1..(i - 1) : s[j] # c) THEN d ELSE s[i]]

\* s.replace(/c/g, d) for a one-character pattern c
ReplaceEvery(s, c, d) == [i \in 1..Len(s) |-> IF s[i] = c THEN d ELSE s[i]]

\* s.replace(/=+$/, '')
RECURSIVE StripPadding(_)
StripPadding(s) ==
    IF Len(s) > 0 /\ s[Len(s)] = "="
    THEN StripPadding(SubSeq(s, 1, Len(s) - 1))
    ELSE s

\* String.prototype.toLowerCase on the letters the model uses
LowerOf(c) ==
    CASE c = "A" -> "a" [] c = "B" -> "b" [] c = "C" -> "c" [] c = "D" -> "d"
      [] c = "E" -> "e" [] c = "F" -> "f" [] c = "G" -> "g" [] c = "H" -> "h"
      [] c = "I" -> "i" [] c = "J" -> "j" [] c = "K" -> "k" [] c = "L" -> "l"
      [] c = "M" -> "m" [] c = "N" -> "n" [] c = "O" -> "o" [] c = "P" -> "p"
      [] c = "Q" -> "q" [] c = "R" -> "r" [] c = "S" -> "s" [] c = "T" -> "t"
      [] c = "U" -> "u" [] c = "V" -> "v" [] c = "W" -> "w" [] c = "X" -> "x"
      [] c = "Y" -> "y" [] c = "Z" -> "z" [] OTHER -> c

toLowerCase(s) == [i \in 1..Len(s) |-> LowerOf(s[i])]

(***************************************************************************)
(* Buffer.toString('base64'): three bytes give four characters of the      *)
(* standard alphabet; a last group of one or two bytes is padded with '='. *)
(***************************************************************************)
Base64Alphabet ==
    <<"A", "B", "C", "D", "E", "F", "G", "H", "I", "J", "K", "L", "M",
      "N", "O", "P", "Q", "R", "S", "T", "U", "V", "W", "X", "Y", "Z",
      "a", "b", "c", "d", "e", "f", "g", "h", "i", "j", "k", "l", "m",
      "n", "o", "p", "q", "r", "s", "t", "u", "v", "w", "x", "y", "z",
      "0", "1", "2", "3", "4", "5", "6", "7", "8", "9", "+", "/">>

Base64Char(v) == Base64Alphabet[v + 1]

RECURSIVE toBase64(_)
toBase64(bytes) ==
    IF Len(bytes) = 0 THEN <<>>
    ELSE IF Len(bytes) = 1 THEN
        <<Base64Char(bytes[1] \div 4), Base64Char((bytes[1] % 4) * 16), "=", "=">>
    ELSE IF Len(bytes) = 2 THEN
        <<Base64Char(bytes[1] \div 4),
          Base64Char((bytes[1] % 4) * 16 + bytes[2] \div 16),
          Base64Char((bytes[2] % 16) * 4), "=">>
    ELSE
        <<Base64Char(bytes[1] \div 4),
          Base64Char((bytes[1] % 4) * 16 + bytes[2] \div 16),
          Base64Char((bytes[2] % 16) * 4 + bytes[3] \div 64),
          Base64Char(bytes[3] % 64)>>
        \o toBase64(SubSeq(bytes, 4, Len(bytes)))

\* Variant of slice: the last bytes of the buffer instead of the first.
slice_tail(buf, end) ==
    SubSeq(buf, IF end < Len(buf) THEN Len(buf) - end + 1 ELSE 1, Len(buf))

\* Buffer.slice(0, end)
slice(buf, end) == SubSeq(buf, 1, IF end < Len(buf) THEN end ELSE Len(buf))

(***************************************************************************)
(* crypto.createHash('sha512').update(data).digest() on the payloads the    *)
(* model hashes: each entry is <<data, the 64 bytes of SHA-512(data)>>.     *)
(***************************************************************************)
SHA512Table ==
    {
      <<<<"c", "h", "r", "7", ":", "0", ":", "A", ":", "A">>,
        <<86,25,119,197,137,115,151,196,58,105,128,73,142,14,21,182,12,10,99,14,223,176,213,140,206,208,231,195,181,120,11,79,55,121,207,196,184,94,18,181,179,242,22,242,39,252,171,43,163,153,164,161,62,150,48,241,123,107,224,183,31,220,65,194>>>>,
      <<<<"c", "h", "r", "7", ":", "0", ":", "A", ":", "A", ":", "A">>,
        <<249,128,253,48,246,54,240,252,56,116,120,169,254,240,188,58,50,22,240,201,134,87,254,55,144,96,72,129,10,227,254,226,149,44,104,76,192,147,254,226,111,116,21,70,3,195,192,154,226,213,70,191,188,250,17,205,154,9,2,130,61,71,136,128>>>>,
      <<<<"c", "h", "r", "7", ":", "0", ":", "A", ":", "A", ":", "A", ":", "A">>,
        <<240,105,239,45,57,230,200,18,189,181,52,197,48,85,82,4,240,41,148,84,209,161,164,4,16,196,19,72,176,237,233,79,91,182,81,236,234,179,103,28,179,49,198,120,227,107,124,52,53,130,144,27,187,137,124,163,178,0,164,120,162,56,228,153>>>>,
      <<<<"c", "h", "r", "7", ":", "1", ":", "A", ":", "A">>,
        <<243,123,114,249,193,23,28,38,48,133,250,17,76,184,239,183,214,90,78,160,139,158,6,35,55,88,255,155,63,0,192,116,191,223,219,210,249,7,163,215,255,231,3,110,60,217,126,253,196,40,1,221,133,70,141,147,9,151,48,251,110,229,103,122>>>>,
      <<<<"c", "h", "r", "7", ":", "1", ":", "A", ":", "A", ":", "A">>,
        <<215,118,153,168,145,23,170,223,135,223,3,250,30,55,247,116,83,125,54,19,198,231,140,233,133,140,24,82,8,198,50,130,224,149,212,138,194,81,51,158,145,8,10,251,185,129,72,173,124,233,168,16,190,213,138,152,221,67,136,141,236,181,88,31>>>>,
      <<<<"c", "h", "r", "7", ":", "1", ":", "A", ":", "A", ":", "A", ":", "A">>,
        <<34,65,238,175,37,68,175,26,92,203,212,65,87,106,38,173,145,62,9,229,146,45,187,41,223,175,149,185,98,111,210,184,237,103,210,228,105,188,173,212,191,250,255,94,191,231,141,16,191,15,166,99,43,75,3,106,177,35,238,29,59,17,14,216>>>>,
      <<<<"c", "h", "r", "7", ":", "2", ":", "A", ":", "A">>,
        <<34,142,99,239,73,33,90,86,185,53,237,240,216,65,85,228,247,145,159,69,168,217,103,203,183,198,41,194,74,82,233,212,137,168,75,208,20,112,95,97,190,143,88,86,218,92,61,66,53,66,37,15,110,140,85,42,185,130,60,168,153,196,100,92>>>>,
      <<<<"c", "h", "r", "7", ":", "2", ":", "A", ":", "A", ":", "A">>,
        <<99,187,86,83,129,27,86,214,4,37,238,137,76,233,3,51,169,198,91,196,236,145,253,85,88,54,10,128,46,37,237,115,19,133,77,160,94,131,62,123,159,160,58,91,96,42,114,94,79,157,127,117,218,231,250,198,93,209,165,151,179,49,220,167>>>>,
      <<<<"c", "h", "r", "7", ":", "2", ":", "A", ":", "A", ":", "A", ":", "A">>,
        <<28,5,92,140,122,212,80,143,64,168,201,78,239,201,52,199,96,126,68,117,143,163,128,198,5,102,69,218,201,112,198,109,158,193,196,184,220,148,58,166,10,181,51,63,30,80,138,69,117,85,227,162,85,155,135,246,92,236,103,77,240,136,195,200>>>>,
      <<<<"c", "h", "r", "7", ":", "0", "0", ":", "A", ":", "A">>,
        <<225,13,64,86,118,239,209,33,8,214,133,233,2,188,237,252,69,88,59,92,124,7,31,96,80,156,82,33,55,219,219,155,174,22,32,163,65,175,2,117,154,140,137,52,144,109,134,53,180,82,146,164,89,161,112,208,178,229,152,33,94,154,169,143>>>>,
      <<<<"c", "h", "r", "7", ":", "0", "0", ":", "A", ":", "A", ":", "A">>,
        <<42,244,237,51,56,67,22,173,39,89,231,42,64,253,227,62,252,198,175,248,63,28,77,14,57,179,62,113,55,2,62,78,157,1,25,49,130,155,126,46,47,110,35,95,55,215,35,10,167,205,47,105,131,187,42,17,173,214,4,140,239,126,226,172>>>>,
      <<<<"c", "h", "r", "7", ":", "0", "0", ":", "A", ":", "A", ":", "A", ":", "A">>,
        <<99,26,5,235,83,142,243,36,163,217,29,89,64,121,15,55,171,52,211,243,156,190,131,44,72,54,206,157,90,64,229,18,105,16,221,102,31,239,210,68,70,0,1,40,239,152,39,119,238,217,233,97,128,189,87,239,36,237,252,23,226,195,234,133>>>>,
      <<<<"c", "h", "r", "7", ":", "0", "1", ":", "A", ":", "A">>,
        <<177,18,128,103,105,107,67,168,84,67,235,248,141,35,23,79,145,249,198,30,17,42,216,244,157,53,98,119,2,183,239,118,180,144,229,253,98,3,181,3,168,64,163,156,197,89,29,211,211,105,249,165,70,3,58,88,214,29,232,149,66,61,111,160>>>>,
      <<<<"c", "h", "r", "7", ":", "0", "1", ":", "A", ":", "A", ":", "A">>,
        <<254,145,115,147,115,104,53,18,57,246,76,171,152,36,101,102,143,252,100,12,201,111,84,231,218,43,151,182,224,247,204,10,129,72,249,90,155,32,104,90,141,188,96,126,69,20,206,30,162,18,59,192,127,35,169,100,63,135,208,147,196,54,134,115>>>>,
      <<<<"c", "h", "r", "7", ":", "0", "1", ":", "A", ":", "A", ":", "A", ":", "A">>,
        <<137,230,204,251,199,74,194,30,22,185,74,114,251,153,208,37,146,64,227,176,115,169,166,236,1,45,70,4,80,141,181,85,174,140,254,123,17,111,104,41,167,41,117,65,57,238,156,58,150,219,176,9,148,180,10,227,188,52,64,8,225,70,106,4>>>>,
      <<<<"c", "h", "r", "7", ":", "0", "2", ":", "A", ":", "A">>,
        <<4,88,130,27,119,227,45,93,246,57,99,80,130,99,159,114,180,44,91,125,3,120,3,138,117,82,229,73,157,41,61,53,234,177,129,180,0,205,95,124,216,107,233,141,127,151,103,65,173,7,252,29,88,117,241,134,83,99,34,163,46,188,204,167>>>>,
      <<<<"c", "h", "r", "7", ":", "0", "2", ":", "A", ":", "A", ":", "A">>,
        <<117,205,60,243,141,10,70,254,51,136,18,58,233,10,252,147,18,139,138,4,148,187,135,31,19,177,87,51,177,134,175,74,170,158,250,218,77,230,114,153,97,180,52,176,21,2,158,68,123,213,101,154,55,153,89,105,22,60,251,250,51,14,162,222>>>>,
      <<<<"c", "h", "r", "7", ":", "0", "2", ":", "A", ":", "A", ":", "A", ":", "A">>,
        <<219,17,96,243,172,52,135,36,195,49,86,218,84,201,69,231,230,54,5,182,46,218,58,148,208,227,47,11,97,12,246,113,212,11,63,172,101,167,182,117,12,51,119,239,83,7,154,2,211,106,33,239,47,1,254,179,101,120,253,163,46,68,242,101>>>>,
      <<<<"7", ":", "0", ":", "A", ":", "A">>,
        <<218,226,153,122,64,54,253,115,81,109,190,139,55,104,20,157,66,44,179,192,173,255,168,19,137,182,250,13,170,7,124,64,238,92,149,199,145,219,184,58,98,128,147,193,130,250,167,115,152,152,167,102,242,251,65,45,10,228,124,165,166,56,28,22>>>>,
      <<<<"7", ":", "0", ":", "A", ":", "A", ":", "A">>,
        <<210,223,23,130,151,137,1,159,38,70,219,139,6,14,201,82,127,124,142,49,25,114,70,43,7,135,104,196,139,31,150,68,89,3,73,253,244,12,40,246,125,179,157,43,243,138,67,108,110,219,89,124,76,187,183,49,251,42,233,83,240,24,207,227>>>>,
      <<<<"7", ":", "0", ":", "A", ":", "A", ":", "A", ":", "A">>,
        <<87,139,102,178,157,181,131,26,157,38,92,194,31,40,92,240,170,133,239,223,62,101,46,27,182,163,185,81,98,21,121,61,158,84,93,117,192,111,36,182,6,144,243,230,126,9,245,184,227,160,207,133,24,232,205,243,101,15,185,186,31,125,86,71>>>>,
      <<<<"7", ":", "1", ":", "A", ":", "A">>,
        <<71,79,27,13,61,88,65,178,73,212,93,183,177,135,93,196,11,158,208,168,247,13,149,91,178,138,71,60,105,96,248,96,103,166,167,220,186,207,210,182,125,61,26,76,126,204,158,3,233,29,225,65,98,239,51,161,98,88,213,15,107,167,148,218>>>>,
      <<<<"7", ":", "1", ":", "A", ":", "A", ":", "A">>,
        <<147,133,132,250,213,70,137,6,131,112,27,69,155,149,249,105,86,138,60,104,155,21,236,67,42,91,2,57,121,254,159,254,170,39,28,187,36,86,192,23,29,33,120,200,196,156,233,163,180,101,57,218,226,52,204,239,185,81,69,248,238,160,245,157>>>>,
      <<<<"7", ":", "1", ":", "A", ":", "A", ":", "A", ":", "A">>,
        <<167,83,246,158,87,61,153,71,23,221,159,136,235,77,24,230,125,188,18,43,44,214,238,213,215,165,55,186,129,55,194,127,186,89,217,129,42,131,152,72,52,152,187,115,4,179,239,120,107,38,73,92,242,161,250,134,20,56,209,125,241,141,181,43>>>>,
      <<<<"7", ":", "2", ":", "A", ":", "A">>,
        <<38,134,225,10,5,227,133,52,49,44,37,151,152,35,236,201,123,99,104,64,42,172,75,231,152,80,125,138,49,22,24,160,131,207,82,113,179,113,151,108,15,94,137,111,40,78,108,38,5,64,152,48,4,89,38,114,118,120,150,3,179,249,162,122>>>>,
      <<<<"7", ":", "2", ":", "A", ":", "A", ":", "A">>,
        <<124,111,160,27,227,236,94,110,190,3,139,251,71,173,239,64,154,22,120,128,105,209,36,209,107,248,45,70,118,18,133,26,81,229,251,143,197,160,130,106,144,20,61,246,209,115,232,185,243,60,214,102,213,16,8,56,234,40,113,16,139,78,190,124>>>>,
      <<<<"7", ":", "2", ":", "A", ":", "A", ":", "A", ":", "A">>,
        <<247,112,30,15,59,66,83,200,249,253,12,248,66,202,78,65,131,95,191,142,181,125,156,132,182,50,137,100,70,242,213,89,8,15,235,91,128,154,169,169,225,214,10,143,57,124,108,77,154,152,247,90,75,95,229,66,111,196,152,16,88,68,104,85>>>>,
      <<<<"7", ":", "0", "0", ":", "A", ":", "A">>,
        <<172,230,15,21,207,210,228,6,69,249,250,227,140,253,210,226,211,60,14,23,12,253,40,199,182,180,105,208,226,49,29,169,51,189,159,141,130,184,92,149,70,196,203,56,214,211,109,19,143,153,37,164,146,133,105,51,108,159,148,87,82,212,209,6>>>>,
      <<<<"7", ":", "0", "0", ":", "A", ":", "A", ":", "A">>,
        <<24,23,23,144,119,7,129,76,152,155,206,225,251,50,24,167,211,67,236,102,179,8,253,95,49,59,234,9,139,77,117,214,71,67,227,229,96,140,221,227,158,51,44,72,158,236,96,153,4,63,198,157,246,162,139,114,38,74,187,234,216,174,132,241>>>>,
      <<<<"7", ":", "0", "0", ":", "A", ":", "A", ":", "A", ":", "A">>,
        <<110,211,25,131,52,15,230,13,209,126,137,180,246,213,109,18,100,172,139,150,121,173,140,182,191,25,87,29,51,74,78,97,201,50,17,11,6,62,58,238,173,72,121,83,76,135,99,7,176,196,9,135,109,175,184,135,38,225,99,200,47,58,206,43>>>>,
      <<<<"7", ":", "0", "1", ":", "A", ":", "A">>,
        <<176,67,212,134,182,115,71,23,83,179,98,92,215,147,235,147,181,216,59,233,22,53,11,16,14,148,187,160,168,141,154,28,31,40,195,162,201,153,149,233,68,130,189,55,6,158,123,11,214,98,223,40,52,131,115,179,210,21,234,14,253,194,186,255>>>>,
      <<<<"7", ":", "0", "1", ":", "A", ":", "A", ":", "A">>,
        <<77,128,110,97,110,99,151,127,188,230,86,61,67,207,33,44,198,34,3,115,201,193,201,132,120,87,4,227,214,171,42,166,81,61,109,14,155,89,182,196,212,123,198,151,185,54,8,172,44,65,68,174,58,24,169,60,108,208,219,131,188,45,59,26>>>>,
      <<<<"7", ":", "0", "1", ":", "A", ":", "A", ":", "A", ":", "A">>,
        <<210,93,222,43,30,177,186,127,27,186,169,179,197,165,109,178,21,95,138,220,117,49,147,80,7,161,43,106,86,48,249,146,24,218,30,235,51,184,46,93,33,255,74,171,232,220,153,187,234,231,134,232,242,72,124,9,51,175,35,128,160,173,247,252>>>>,
      <<<<"7", ":", "0", "2", ":", "A", ":", "A">>,
        <<141,12,116,67,235,213,185,241,0,231,93,153,186,98,172,229,212,142,206,109,189,74,160,52,122,154,119,144,71,245,213,213,229,222,46,205,132,127,196,246,64,104,254,180,245,105,64,20,11,222,90,250,45,6,85,204,221,135,176,205,72,177,147,158>>>>,
      <<<<"7", ":", "0", "2", ":", "A", ":", "A", ":", "A">>,
        <<105,244,186,101,241,100,176,180,2,21,52,153,39,9,136,110,177,133,188,198,49,200,158,66,8,172,148,68,122,0,243,15,118,52,210,125,69,118,36,106,63,193,80,141,214,97,84,124,208,125,10,105,186,167,166,243,163,156,9,174,226,82,175,205>>>>,
      <<<<"7", ":", "0", "2", ":", "A", ":", "A", ":", "A", ":", "A">>,
        <<23,201,140,20,105,221,38,140,86,64,195,30,228,179,52,134,1,111,29,82,206,109,156,161,21,52,52,222,244,243,225,19,185,1,62,247,120,199,38,245,17,247,127,128,2,132,111,98,41,185,50,232,29,218,25,87,57,185,160,139,77,123,251,78>>>>,
      <<<<"c", "h", "r", "M", ":", "0", ":", "A", ":", "A">>,
        <<33,13,121,238,168,56,16,129,120,209,163,26,32,120,254,240,230,139,242,203,59,21,148,102,249,204,37,131,112,38,2,103,255,145,224,148,6,144,241,230,98,179,140,222,85,96,186,239,52,130,36,211,11,181,218,80,26,44,209,133,248,182,47,89>>>>,
      <<<<"c", "h", "r", "M", ":", "0", ":", "A", ":", "A", ":", "A">>,
        <<6,88,184,115,108,124,217,161,132,184,137,228,104,79,172,83,48,65,217,164,29,133,33,68,169,146,243,59,110,49,36,105,163,212,143,220,147,170,251,212,115,117,172,242,201,134,152,222,4,159,113,227,235,55,12,151,227,47,85,155,41,56,29,58>>>>,
      <<<<"c", "h", "r", "M", ":", "0", ":", "A", ":", "A", ":", "A", ":", "A">>,
        <<124,193,175,189,201,27,210,208,129,192,163,121,144,147,21,127,106,122,64,71,151,144,58,180,136,46,227,147,150,9,1,244,241,145,122,64,110,105,239,12,254,165,122,203,236,136,182,52,10,56,251,217,234,8,44,38,169,201,99,253,145,42,113,138>>>>,
      <<<<"c", "h", "r", "M", ":", "1", ":", "A", ":", "A">>,
        <<120,201,107,10,92,53,45,156,160,247,168,250,39,195,153,57,116,51,236,88,154,19,80,163,121,248,149,83,215,165,238,212,44,70,104,243,49,252,171,244,0,124,132,250,4,102,255,213,163,55,142,191,78,161,1,61,158,188,122,193,153,99,2,254>>>>,
      <<<<"c", "h", "r", "M", ":", "1", ":", "A", ":", "A", ":", "A">>,
        <<124,36,83,6,53,68,143,96,76,95,189,55,69,93,66,99,152,171,251,255,68,185,133,43,65,186,57,98,186,231,1,66,123,147,198,185,149,51,201,129,27,113,136,45,7,105,178,209,85,249,2,9,240,251,97,140,176,204,185,8,24,35,159,85>>>>,
      <<<<"c", "h", "r", "M", ":", "1", ":", "A", ":", "A", ":", "A", ":", "A">>,
        <<122,5,152,41,206,177,197,143,33,38,102,238,129,96,184,242,85,19,73,0,52,160,223,21,80,37,27,13,174,184,119,77,36,91,132,223,114,57,174,18,151,83,156,129,83,131,91,31,190,233,163,88,232,246,150,197,100,196,176,125,32,209,73,235>>>>,
      <<<<"c", "h", "r", "M", ":", "2", ":", "A", ":", "A">>,
        <<188,8,169,117,224,68,180,102,167,98,33,2,232,182,253,87,78,220,24,170,225,245,186,164,32,251,18,114,243,12,47,123,210,247,0,75,37,94,231,109,244,28,82,190,67,204,38,111,70,5,167,45,137,157,152,250,180,228,204,6,241,83,183,63>>>>,
      <<<<"c", "h", "r", "M", ":", "2", ":", "A", ":", "A", ":", "A">>,
        <<21,117,97,212,88,85,164,170,160,129,77,210,25,244,131,101,223,135,158,182,172,107,27,131,94,152,197,196,38,103,39,42,241,80,177,188,99,84,122,223,129,189,127,55,183,54,243,205,63,90,45,46,60,2,190,69,4,183,187,140,109,163,132,88>>>>,
      <<<<"c", "h", "r", "M", ":", "2", ":", "A", ":", "A", ":", "A", ":", "A">>,
        <<188,103,226,94,193,238,177,101,41,102,208,47,196,165,249,89,28,106,83,160,100,67,5,50,254,71,211,208,224,171,108,42,177,100,84,6,240,174,213,6,34,52,226,243,37,224,224,69,114,40,230,214,169,100,143,139,190,130,92,197,60,232,121,178>>>>,
      <<<<"c", "h", "r", "M", ":", "0", "0", ":", "A", ":", "A">>,
        <<194,111,195,134,73,163,93,187,249,184,14,186,237,150,204,59,120,152,204,162,228,188,64,0,145,105,30,98,157,47,19,255,107,246,253,62,28,3,218,85,4,80,189,134,223,88,88,108,88,220,120,192,134,58,13,64,67,201,3,143,194,141,77,21>>>>,
      <<<<"c", "h", "r", "M", ":", "0", "0", ":", "A", ":", "A", ":", "A">>,
        <<217,37,177,159,106,139,130,58,235,26,150,164,221,2,4,19,84,177,239,243,91,241,45,27,120,130,63,206,87,249,144,187,94,179,86,236,24,200,174,254,207,223,150,233,67,123,146,246,140,245,211,229,160,59,174,65,158,192,186,96,78,143,164,249>>>>,
      <<<<"c", "h", "r", "M", ":", "0", "0", ":", "A", ":", "A", ":", "A", ":", "A">>,
        <<235,227,66,134,224,130,169,222,29,139,80,156,241,245,113,41,193,221,104,224,71,168,32,179,46,119,114,238,72,231,53,147,4,97,172,122,235,144,172,158,171,251,231,78,123,163,32,244,30,157,179,179,228,67,93,160,251,163,112,115,195,82,198,149>>>>,
      <<<<"c", "h", "r", "M", ":", "0", "1", ":", "A", ":", "A">>,
        <<187,113,17,155,137,209,83,138,127,65,166,22,178,232,123,180,67,41,74,93,32,27,201,71,234,7,1,190,56,183,126,196,11,69,223,151,173,70,199,241,213,128,32,87,41,222,17,174,224,207,131,42,51,239,123,12,2,16,105,15,133,105,110,59>>>>,
      <<<<"c", "h", "r", "M", ":", "0", "1", ":", "A", ":", "A", ":", "A">>,
        <<166,120,28,61,200,252,110,84,126,114,234,115,128,254,201,139,12,104,98,204,113,82,107,58,77,132,82,112,27,65,143,137,241,35,238,190,142,108,225,132,37,136,224,63,237,49,110,29,42,146,36,29,63,224,172,25,159,140,32,201,14,217,20,136>>>>,
      <<<<"c", "h", "r", "M", ":", "0", "1", ":", "A", ":", "A", ":", "A", ":", "A">>,
        <<247,11,231,39,50,219,62,35,179,222,185,92,94,146,140,124,15,29,236,123,225,199,46,67,255,229,31,235,143,176,223,14,78,59,225,46,29,139,56,229,45,91,236,241,133,225,233,19,166,77,208,180,169,59,139,250,38,48,9,179,42,8,15,221>>>>,
      <<<<"c", "h", "r", "M", ":", "0", "2", ":", "A", ":", "A">>,
        <<92,31,92,61,243,171,101,158,87,55,27,184,239,100,72,89,105,173,108,167,214,191,134,217,213,116,216,197,188,202,243,66,105,45,16,176,239,63,101,70,209,247,197,38,49,127,75,205,22,112,188,38,115,255,241,253,27,238,135,151,179,208,78,9>>>>,
      <<<<"c", "h", "r", "M", ":", "0", "2", ":", "A", ":", "A", ":", "A">>,
        <<140,37,175,84,243,229,33,216,165,56,232,190,253,31,87,28,164,21,158,136,202,93,225,17,132,180,103,168,136,81,164,247,13,211,0,243,194,255,43,120,140,213,196,159,89,88,227,198,49,122,228,107,73,98,213,253,118,226,93,25,220,140,105,129>>>>,
      <<<<"c", "h", "r", "M", ":", "0", "2", ":", "A", ":", "A", ":", "A", ":", "A">>,
        <<80,133,63,47,165,137,109,4,187,172,94,141,148,207,3,165,124,20,49,43,48,64,246,231,43,143,89,254,153,58,25,100,10,208,112,110,18,241,237,81,55,31,19,104,137,191,44,213,97,45,173,29,22,49,193,11,148,161,103,139,22,36,188,146>>>>,
      <<<<"M", ":", "0", ":", "A", ":", "A">>,
        <<151,57,132,112,197,116,188,11,243,234,105,108,190,66,165,44,210,221,170,21,56,76,109,189,123,64,47,151,149,218,189,9,81,190,53,173,214,75,163,153,102,117,47,230,141,169,209,213,135,227,234,200,191,39,76,148,197,204,23,216,67,138,15,84>>>>,
      <<<<"M", ":", "0", ":", "A", ":", "A", ":", "A">>,
        <<176,211,170,212,146,143,83,213,250,154,8,131,13,221,49,207,191,249,56,164,50,104,101,42,251,189,139,102,164,72,192,204,132,198,78,50,205,134,137,209,224,230,114,204,90,199,170,2,141,170,236,35,175,248,235,183,193,183,52,41,234,232,65,148>>>>,
      <<<<"M", ":", "0", ":", "A", ":", "A", ":", "A", ":", "A">>,
        <<228,37,163,119,149,171,180,252,80,67,156,143,195,74,122,182,221,141,93,253,222,216,94,129,61,249,10,248,82,23,24,87,34,70,187,135,180,189,183,14,80,107,104,205,121,142,82,99,124,174,61,203,168,211,184,13,17,104,91,23,31,117,76,44>>>>,
      <<<<"M", ":", "1", ":", "A", ":", "A">>,
        <<160,57,190,65,198,60,249,100,58,80,158,172,39,132,140,66,16,24,109,54,214,222,157,141,244,227,43,193,195,25,81,207,92,78,243,91,231,166,88,40,150,155,51,7,96,6,86,232,145,243,151,64,160,92,93,191,252,181,131,83,85,14,188,130>>>>,
      <<<<"M", ":", "1", ":", "A", ":", "A", ":", "A">>,
        <<201,133,208,118,144,242,158,93,237,47,53,211,153,143,3,223,56,160,214,25,44,1,233,20,104,44,248,49,184,111,240,76,57,222,39,188,132,2,236,0,82,95,243,1,154,189,110,26,250,244,1,94,31,126,74,251,33,40,24,85,118,195,126,100>>>>,
      <<<<"M", ":", "1", ":", "A", ":", "A", ":", "A", ":", "A">>,
        <<14,163,153,215,239,110,226,64,161,24,20,242,169,74,175,124,226,147,207,120,11,151,91,31,227,131,142,236,179,252,99,193,21,105,93,159,175,189,234,24,10,93,159,147,21,246,210,242,253,11,181,211,151,254,94,113,6,225,90,99,1,22,191,5>>>>,
      <<<<"M", ":", "2", ":", "A", ":", "A">>,
        <<60,243,51,121,30,5,50,78,147,202,25,200,195,202,185,148,233,128,110,55,206,62,4,227,154,47,80,77,162,40,242,211,58,105,247,223,112,148,10,217,63,192,109,22,122,145,241,158,68,154,59,194,132,83,43,227,10,247,129,246,7,66,180,249>>>>,
      <<<<"M", ":", "2", ":", "A", ":", "A", ":", "A">>,
        <<159,23,51,10,81,31,204,8,102,160,72,4,176,168,75,55,6,203,78,140,239,164,73,50,244,61,156,32,91,50,8,161,115,93,83,225,138,250,151,13,174,236,103,252,96,69,31,129,223,123,26,81,117,216,87,217,99,98,183,174,148,217,243,209>>>>,
      <<<<"M", ":", "2", ":", "A", ":", "A", ":", "A", ":", "A">>,
        <<173,207,228,92,209,211,7,16,178,158,41,68,61,156,97,159,242,26,34,81,196,204,237,203,138,253,205,28,32,43,13,66,83,55,211,200,224,196,4,222,190,131,202,145,166,201,87,43,86,34,190,56,180,120,117,12,243,80,117,131,182,225,64,110>>>>,
      <<<<"M", ":", "0", "0", ":", "A", ":", "A">>,
        <<40,204,167,72,206,53,32,20,8,128,216,73,48,33,234,107,125,22,218,11,199,200,243,206,167,241,69,136,149,107,157,215,59,80,38,126,53,71,89,203,247,174,124,133,173,246,212,90,249,194,227,180,215,164,161,235,151,4,204,180,227,147,207,160>>>>,
      <<<<"M", ":", "0", "0", ":", "A", ":", "A", ":", "A">>,
        <<148,227,66,21,80,63,195,168,131,127,111,25,160,91,122,11,80,145,100,181,139,95,146,18,6,154,167,245,219,151,114,236,219,20,176,57,121,245,188,117,24,247,199,131,181,15,15,51,206,222,129,112,59,5,61,83,158,122,194,169,201,95,255,122>>>>,
      <<<<"M", ":", "0", "0", ":", "A", ":", "A", ":", "A", ":", "A">>,
        <<23,160,252,215,70,116,13,196,100,238,133,71,148,203,250,62,34,37,198,162,183,209,239,178,106,126,234,48,34,38,26,211,2,237,208,172,33,134,220,245,34,125,114,7,107,186,132,240,58,164,47,250,127,113,2,78,206,65,164,208,111,204,4,33>>>>,
      <<<<"M", ":", "0", "1", ":", "A", ":", "A">>,
        <<198,176,69,102,204,238,114,51,73,231,199,142,153,82,45,47,34,23,180,235,210,12,28,99,162,52,96,84,226,230,128,44,18,39,134,192,106,79,243,181,5,239,194,175,113,186,161,218,186,125,138,15,177,254,237,30,192,41,224,174,139,58,83,112>>>>,
      <<<<"M", ":", "0", "1", ":", "A", ":", "A", ":", "A">>,
        <<99,158,46,87,99,9,142,54,95,5,38,95,146,164,143,239,42,154,46,139,77,202,116,153,222,101,174,171,152,58,139,84,76,24,237,47,96,130,167,240,49,167,163,130,43,229,92,38,182,238,231,100,52,191,129,78,173,253,76,168,37,112,58,218>>>>,
      <<<<"M", ":", "0", "1", ":", "A", ":", "A", ":", "A", ":", "A">>,
        <<215,245,133,191,150,120,10,208,10,154,102,221,189,143,151,38,246,130,210,21,107,152,67,68,244,48,40,188,62,71,212,31,243,123,36,214,156,134,237,127,76,111,106,196,227,198,234,192,138,38,165,96,29,33,50,206,95,202,193,150,156,235,196,118>>>>,
      <<<<"M", ":", "0", "2", ":", "A", ":", "A">>,
        <<21,89,143,56,184,99,122,176,32,165,125,34,34,110,3,105,24,161,247,205,155,122,88,56,153,216,126,142,150,4,173,42,123,199,167,239,234,23,100,246,157,173,185,44,241,232,223,191,78,135,135,25,185,213,0,0,86,185,73,65,233,97,193,251>>>>,
      <<<<"M", ":", "0", "2", ":", "A", ":", "A", ":", "A">>,
        <<100,231,109,86,55,157,210,146,126,87,47,179,22,94,100,44,202,41,103,167,183,47,200,15,121,66,93,106,27,72,47,154,249,255,239,14,66,40,18,13,81,146,247,216,124,202,15,47,87,1,24,161,50,9,68,200,166,57,121,37,0,159,15,234>>>>,
      <<<<"M", ":", "0", "2", ":", "A", ":", "A", ":", "A", ":", "A">>,
        <<145,124,253,80,144,27,219,39,79,92,140,90,41,30,113,129,183,252,114,205,203,193,105,131,76,161,149,218,228,92,87,19,121,84,73,49,232,188,47,165,245,90,133,176,104,164,116,23,89,197,22,89,41,161,251,100,252,219,73,180,215,54,210,79>>>>,
      <<<<"M", "T", ":", "0", ":", "A", ":", "A">>,
        <<23,99,76,186,78,122,229,99,38,244,2,251,56,131,248,224,208,197,212,230,133,107,252,27,223,169,211,206,180,188,137,20,223,250,2,213,150,203,246,62,249,111,146,242,87,108,159,68,241,143,224,108,155,169,72,209,7,90,165,75,241,54,41,234>>>>,
      <<<<"M", "T", ":", "0", ":", "A", ":", "A", ":", "A">>,
        <<11,86,229,85,191,72,199,123,36,34,56,103,255,238,237,121,252,166,133,83,209,73,141,20,159,111,137,88,30,112,172,70,65,26,236,81,95,235,86,40,66,45,28,204,212,6,74,14,252,227,246,0,14,201,21,82,117,143,165,88,124,109,207,51>>>>,
      <<<<"M", "T", ":", "0", ":", "A", ":", "A", ":", "A", ":", "A">>,
        <<80,216,160,167,134,92,137,38,54,63,124,189,143,177,110,148,0,205,156,187,189,57,207,158,154,103,25,71,195,7,121,113,61,197,224,41,227,73,183,167,218,177,140,156,23,148,188,207,188,247,104,22,196,167,90,87,162,247,39,8,123,209,139,229>>>>,
      <<<<"M", "T", ":", "1", ":", "A", ":", "A">>,
        <<145,254,119,138,174,238,170,93,189,152,208,213,37,178,162,69,114,59,29,181,191,226,228,17,207,139,6,48,213,250,178,208,18,132,20,224,141,151,245,4,192,97,161,112,219,37,10,183,196,35,103,104,117,235,154,215,171,99,11,230,145,235,143,44>>>>,
      <<<<"M", "T", ":", "1", ":", "A", ":", "A", ":", "A">>,
        <<155,181,70,21,13,185,212,21,159,174,227,155,23,233,219,255,172,196,73,236,90,42,247,10,110,39,195,2,9,123,140,152,34,196,158,98,83,46,222,190,82,153,0,97,101,95,108,89,177,241,135,124,86,130,119,101,241,111,5,239,122,59,25,232>>>>,
      <<<<"M", "T", ":", "1", ":", "A", ":", "A", ":", "A", ":", "A">>,
        <<247,146,182,21,132,227,134,43,134,162,199,212,69,47,135,155,73,79,61,47,223,204,61,128,234,32,244,213,2,188,163,96,204,233,175,99,89,72,110,137,99,88,152,72,87,122,169,237,199,97,232,173,202,22,194,16,150,198,30,217,92,6,218,23>>>>,
      <<<<"M", "T", ":", "2", ":", "A", ":", "A">>,
        <<100,52,67,139,204,116,248,189,215,107,216,76,208,7,251,89,208,126,79,110,6,26,232,142,98,9,243,123,165,132,109,216,243,255,27,177,58,7,8,213,46,255,79,86,82,7,227,40,242,14,211,169,190,212,15,51,77,57,146,195,239,213,19,94>>>>,
      <<<<"M", "T", ":", "2", ":", "A", ":", "A", ":", "A">>,
        <<230,19,54,182,151,228,46,208,157,129,26,190,74,72,22,141,47,172,21,113,83,235,102,165,190,42,160,122,85,81,174,197,107,5,230,124,40,134,24,25,1,28,134,248,60,250,170,31,158,31,212,10,218,149,123,112,34,229,6,208,52,237,39,27>>>>,
      <<<<"M", "T", ":", "2", ":", "A", ":", "A", ":", "A", ":", "A">>,
        <<63,8,230,162,243,217,98,18,85,199,15,207,174,88,145,160,167,111,117,224,83,83,126,84,137,105,51,104,221,91,171,86,174,217,66,174,187,4,8,117,204,66,91,91,156,137,34,41,72,97,194,196,230,133,161,28,155,238,97,156,245,128,198,97>>>>,
      <<<<"M", "T", ":", "0", "0", ":", "A", ":", "A">>,
        <<59,253,135,148,41,102,117,17,40,213,180,133,180,210,196,155,126,105,3,97,226,38,137,116,139,162,14,92,83,180,229,106,183,68,110,174,102,110,33,61,81,95,217,96,1,105,233,54,121,108,59,207,129,56,195,146,222,193,250,110,186,181,43,240>>>>,
      <<<<"M", "T", ":", "0", "0", ":", "A", ":", "A", ":", "A">>,
        <<11,134,32,44,245,49,230,41,4,189,225,189,194,75,43,115,20,159,194,67,225,59,116,248,191,103,159,67,183,92,76,99,38,208,161,91,101,253,230,176,18,105,243,215,107,20,44,80,245,19,37,172,191,208,213,147,70,203,239,217,62,174,252,252>>>>,
      <<<<"M", "T", ":", "0", "0", ":", "A", ":", "A", ":", "A", ":", "A">>,
        <<95,173,26,144,173,47,154,252,96,100,192,239,238,160,217,224,198,234,165,242,236,71,36,122,215,20,211,219,152,178,110,105,146,237,185,64,24,108,58,209,230,71,149,10,5,53,9,75,205,125,187,210,13,181,230,191,100,94,57,116,128,217,216,21>>>>,
      <<<<"M", "T", ":", "0", "1", ":", "A", ":", "A">>,
        <<161,221,164,215,10,72,194,38,181,160,226,152,141,7,165,136,48,24,17,116,30,65,133,54,202,221,132,238,221,65,129,27,41,138,156,101,12,29,144,3,133,127,161,168,188,51,14,156,133,185,48,2,254,68,94,167,156,254,126,43,198,209,111,196>>>>,
      <<<<"M", "T", ":", "0", "1", ":", "A", ":", "A", ":", "A">>,
        <<82,116,8,254,4,203,190,45,220,170,45,99,23,10,46,120,48,49,233,77,154,94,22,133,141,54,155,48,190,76,125,143,157,234,27,129,101,73,168,248,201,213,254,133,29,113,73,225,201,131,207,40,104,149,196,116,131,181,223,155,133,82,163,233>>>>,
      <<<<"M", "T", ":", "0", "1", ":", "A", ":", "A", ":", "A", ":", "A">>,
        <<193,224,104,226,250,251,240,248,23,48,53,60,183,30,224,163,114,71,34,227,179,38,60,223,12,167,241,225,138,65,140,136,179,93,61,246,91,183,65,245,177,46,66,84,246,17,15,83,106,210,185,22,249,30,104,242,11,221,138,206,170,90,27,212>>>>,
      <<<<"M", "T", ":", "0", "2", ":", "A", ":", "A">>,
        <<169,167,120,228,113,165,201,207,52,200,66,103,99,144,229,246,21,213,139,217,57,147,243,186,207,13,54,231,120,95,251,110,108,225,253,136,129,144,115,56,163,116,19,80,136,161,201,7,172,222,146,250,19,129,198,49,206,76,117,53,84,210,202,185>>>>,
      <<<<"M", "T", ":", "0", "2", ":", "A", ":", "A", ":", "A">>,
        <<102,225,197,250,15,13,138,73,31,146,131,251,242,113,32,8,81,211,246,159,211,202,172,60,51,170,2,16,116,170,17,135,92,181,222,89,0,33,181,63,184,39,123,89,38,86,36,157,21,44,195,150,114,82,44,40,54,195,62,117,156,105,197,19>>>>,
      <<<<"M", "T", ":", "0", "2", ":", "A", ":", "A", ":", "A", ":", "A">>,
        <<227,102,89,156,255,229,221,10,82,132,217,249,35,69,23,39,134,252,32,240,202,106,181,42,206,69,53,137,13,53,169,11,13,224,253,20,177,198,171,116,194,158,193,48,169,88,144,42,220,0,5,188,53,34,199,57,57,240,205,50,175,230,112,220>>>>,
      <<<<"c", "h", "r", "M", "T", ":", "0", ":", "A", ":", "A">>,
        <<237,205,183,98,248,84,45,171,94,145,245,191,162,44,115,201,202,80,65,70,192,117,6,154,58,239,28,229,217,241,25,11,212,203,147,44,9,141,66,151,170,71,146,36,14,30,77,142,145,50,13,204,70,53,208,117,92,143,27,135,246,213,179,162>>>>,
      <<<<"c", "h", "r", "M", "T", ":", "0", ":", "A", ":", "A", ":", "A">>,
        <<188,68,172,102,144,80,134,25,48,35,23,171,204,38,210,116,91,166,168,59,225,249,20,107,0,131,184,43,37,231,237,125,224,144,7,73,50,51,75,146,179,36,134,101,78,198,80,112,49,44,25,81,143,212,222,204,100,78,187,153,35,214,253,69>>>>,
      <<<<"c", "h", "r", "M", "T", ":", "0", ":", "A", ":", "A", ":", "A", ":", "A">>,
        <<30,212,166,164,213,156,13,224,36,223,167,242,147,55,81,0,80,74,222,12,85,47,43,74,62,133,156,48,10,238,193,21,235,79,242,119,237,250,174,239,46,74,111,157,7,17,96,172,115,186,194,2,245,152,38,34,17,216,241,84,196,48,24,114>>>>,
      <<<<"c", "h", "r", "M", "T", ":", "1", ":", "A", ":", "A">>,
        <<86,216,119,238,96,147,50,81,182,69,82,72,161,99,98,237,70,86,69,241,110,173,168,63,206,177,65,101,180,218,31,209,60,200,209,151,230,73,116,41,52,64,251,61,132,86,161,162,150,205,242,18,117,8,5,246,195,148,108,246,188,45,24,30>>>>,
      <<<<"c", "h", "r", "M", "T", ":", "1", ":", "A", ":", "A", ":", "A">>,
        <<169,1,106,76,104,126,90,9,79,25,215,113,41,51,191,77,236,11,66,19,188,213,145,88,7,80,22,180,179,117,101,153,67,96,254,109,193,1,129,138,40,10,230,53,207,18,69,113,179,161,26,59,134,229,215,79,42,110,140,90,154,31,184,112>>>>,
      <<<<"c", "h", "r", "M", "T", ":", "1", ":", "A", ":", "A", ":", "A", ":", "A">>,
        <<187,118,251,225,185,15,159,156,109,19,2,82,187,203,215,50,147,64,94,66,103,4,167,93,27,53,186,62,113,23,2,129,32,76,12,93,101,122,171,127,186,26,169,249,116,25,107,145,56,51,222,73,98,153,157,139,224,141,42,123,227,254,153,157>>>>,
      <<<<"c", "h", "r", "M", "T", ":", "2", ":", "A", ":", "A">>,
        <<103,243,37,69,242,38,9,20,220,162,95,94,39,29,98,217,142,185,125,9,215,97,179,212,122,82,108,2,207,55,249,243,230,46,159,7,179,29,119,38,24,211,160,31,181,35,212,212,118,0,95,181,92,51,46,214,197,213,105,16,235,102,24,163>>>>,
      <<<<"c", "h", "r", "M", "T", ":", "2", ":", "A", ":", "A", ":", "A">>,
        <<182,91,74,192,94,37,89,220,28,11,35,43,86,57,106,247,73,27,23,13,211,113,124,211,52,247,217,3,62,14,45,82,181,66,226,106,45,49,53,165,115,69,163,31,27,74,71,90,64,168,99,116,222,167,120,183,65,150,73,163,245,54,156,184>>>>,
      <<<<"c", "h", "r", "M", "T", ":", "2", ":", "A", ":", "A", ":", "A", ":", "A">>,
        <<83,161,235,143,71,59,198,97,176,41,3,129,23,128,87,95,96,6,71,149,160,21,70,189,83,67,221,65,5,32,127,16,180,198,219,224,36,200,247,22,206,171,41,244,240,153,108,253,158,248,124,61,240,225,186,168,48,5,26,81,86,190,160,65>>>>,
      <<<<"c", "h", "r", "M", "T", ":", "0", "0", ":", "A", ":", "A">>,
        <<221,27,112,213,133,159,147,31,158,242,237,155,71,13,236,222,205,107,172,147,10,72,37,166,236,130,80,27,198,151,65,81,13,46,133,255,71,133,142,189,103,59,27,164,57,235,231,253,113,58,216,170,82,249,254,167,25,218,21,126,243,119,193,73>>>>,
      <<<<"c", "h", "r", "M", "T", ":", "0", "0", ":", "A", ":", "A", ":", "A">>,
        <<151,130,169,166,192,206,38,133,175,14,224,100,47,242,20,43,177,108,74,233,224,180,154,76,76,254,66,226,114,172,216,89,146,101,3,111,249,200,45,84,98,0,139,51,100,174,54,105,28,11,130,27,94,210,21,186,143,231,165,86,71,199,112,43>>>>,
      <<<<"c", "h", "r", "M", "T", ":", "0", "0", ":", "A", ":", "A", ":", "A", ":", "A">>,
        <<233,66,107,78,198,135,57,49,42,199,197,29,56,93,154,33,150,84,168,157,111,108,29,79,118,133,207,9,133,18,154,167,170,82,23,16,157,170,27,52,200,211,246,200,179,208,137,191,82,31,140,56,169,153,205,6,142,140,207,5,64,199,109,112>>>>,
      <<<<"c", "h", "r", "M", "T", ":", "0", "1", ":", "A", ":", "A">>,
        <<88,104,7,251,114,190,93,150,206,96,208,38,93,79,113,78,195,134,46,121,163,129,134,15,105,122,86,78,62,140,105,175,12,85,58,61,242,102,56,35,38,139,218,34,149,150,229,89,227,45,80,228,156,24,78,61,176,202,73,26,234,179,69,127>>>>,
      <<<<"c", "h", "r", "M", "T", ":", "0", "1", ":", "A", ":", "A", ":", "A">>,
        <<28,200,176,156,89,246,96,223,71,133,72,178,151,183,154,97,170,63,70,76,184,160,99,254,212,232,157,98,128,89,97,73,33,20,6,230,211,253,195,43,117,98,40,182,180,222,62,245,116,121,89,132,117,56,189,52,87,231,203,52,251,27,116,60>>>>,
      <<<<"c", "h", "r", "M", "T", ":", "0", "1", ":", "A", ":", "A", ":", "A", ":", "A">>,
        <<122,97,248,182,196,59,64,194,155,178,21,55,122,162,196,114,173,150,92,114,106,126,246,58,254,218,9,172,89,239,145,208,159,38,69,116,129,106,147,13,107,61,7,140,77,181,129,146,205,255,54,225,110,180,220,29,213,165,45,132,132,27,91,210>>>>,
      <<<<"c", "h", "r", "M", "T", ":", "0", "2", ":", "A", ":", "A">>,
        <<14,116,144,199,21,73,206,224,247,174,141,68,102,244,208,239,224,12,135,32,233,143,195,8,107,33,25,5,177,162,185,207,111,137,153,19,241,230,164,224,237,56,234,86,186,99,146,191,82,220,169,95,61,208,202,118,99,127,92,38,239,138,17,240>>>>,
      <<<<"c", "h", "r", "M", "T", ":", "0", "2", ":", "A", ":", "A", ":", "A">>,
        <<201,8,195,64,6,240,201,141,171,51,55,54,124,201,84,129,102,70,28,64,98,191,57,178,224,232,191,80,78,112,148,211,79,225,111,79,113,102,134,18,225,48,175,103,16,83,210,20,204,81,230,140,130,205,197,242,92,41,89,82,166,17,195,215>>>>,
      <<<<"c", "h", "r", "M", "T", ":", "0", "2", ":", "A", ":", "A", ":", "A", ":", "A">>,
        <<233,227,65,84,165,143,163,187,62,220,69,85,166,114,214,26,67,0,26,89,76,80,169,247,247,232,40,78,56,187,56,238,222,247,104,241,105,70,2,219,198,40,199,237,209,93,156,247,99,136,217,208,67,4,35,58,248,171,69,89,204,185,195,62>>>>,
      <<<<"c", "h", "r", "U", "n", ":", "0", ":", "A", ":", "A">>,
        <<188,42,208,172,120,112,23,245,63,3,217,107,252,130,76,89,124,22,22,27,3,100,117,14,28,87,246,9,140,107,242,39,14,250,131,72,249,51,120,207,236,95,221,15,212,170,187,31,183,18,164,118,134,186,95,175,186,98,28,158,120,111,255,156>>>>,
      <<<<"c", "h", "r", "U", "n", ":", "0", ":", "A", ":", "A", ":", "A">>,
        <<183,54,205,111,182,75,219,34,147,11,114,143,200,64,170,232,183,132,61,69,140,234,122,226,90,153,23,127,166,13,92,229,144,86,92,192,91,134,61,126,195,238,116,149,119,25,78,3,223,165,71,203,246,114,152,207,67,93,199,3,71,240,45,232>>>>,
      <<<<"c", "h", "r", "U", "n", ":", "0", ":", "A", ":", "A", ":", "A", ":", "A">>,
        <<163,215,2,120,239,53,66,230,22,24,39,236,37,169,81,59,248,45,61,188,86,79,36,39,3,107,26,36,157,197,254,124,136,205,181,121,187,34,123,233,20,234,242,147,231,193,124,40,166,76,160,158,23,152,86,143,167,103,67,180,123,81,228,251>>>>,
      <<<<"c", "h", "r", "U", "n", ":", "1", ":", "A", ":", "A">>,
        <<144,210,169,64,49,108,186,46,235,46,6,112,168,49,226,216,7,247,24,181,104,186,151,142,44,37,169,44,241,50,182,80,173,93,118,210,31,59,132,70,79,24,93,104,200,102,147,26,189,17,114,174,127,19,185,230,78,31,245,166,13,28,127,91>>>>,
      <<<<"c", "h", "r", "U", "n", ":", "1", ":", "A", ":", "A", ":", "A">>,
        <<182,169,96,62,71,52,238,85,114,149,76,155,59,223,41,233,100,43,164,157,169,106,211,120,75,79,150,0,36,25,39,22,79,238,9,183,185,43,188,29,123,78,254,63,107,164,222,252,211,1,106,19,1,245,193,12,169,222,36,232,174,161,244,80>>>>,
      <<<<"c", "h", "r", "U", "n", ":", "1", ":", "A", ":", "A", ":", "A", ":", "A">>,
        <<95,237,249,4,91,150,140,241,30,130,33,46,43,16,213,54,200,38,13,237,8,55,119,75,172,147,0,196,96,181,13,166,154,59,65,210,59,19,32,52,203,149,243,17,71,7,96,243,27,140,9,216,207,145,9,187,205,68,168,26,108,144,187,248>>>>,
      <<<<"c", "h", "r", "U", "n", ":", "2", ":", "A", ":", "A">>,
        <<8,56,62,60,64,27,79,128,92,52,20,176,166,240,94,231,163,200,110,162,141,224,120,58,8,62,7,95,245,92,165,56,198,51,0,155,219,162,44,85,148,152,160,40,83,22,139,117,215,244,161,156,199,70,226,162,154,106,235,134,39,4,70,188>>>>,
      <<<<"c", "h", "r", "U", "n", ":", "2", ":", "A", ":", "A", ":", "A">>,
        <<79,159,45,177,130,150,126,41,237,82,187,136,205,75,46,211,209,117,22,146,71,230,104,104,124,233,67,71,18,243,124,204,157,213,144,57,200,28,184,232,214,198,157,248,55,96,254,49,67,182,177,69,25,255,205,183,55,239,188,231,24,192,211,234>>>>,
      <<<<"c", "h", "r", "U", "n", ":", "2", ":", "A", ":", "A", ":", "A", ":", "A">>,
        <<12,176,77,66,57,165,140,237,102,149,164,194,47,10,54,39,239,123,177,146,96,136,4,232,18,19,140,37,220,17,158,66,59,223,90,143,24,5,74,80,247,6,55,114,168,242,109,9,120,228,145,203,50,25,150,147,92,242,122,44,80,251,61,254>>>>,
      <<<<"c", "h", "r", "U", "n", ":", "0", "0", ":", "A", ":", "A">>,
        <<91,192,143,129,78,94,214,124,180,215,79,107,107,32,138,197,230,142,66,239,0,45,181,0,96,231,141,39,237,49,137,155,242,184,221,64,240,69,2,10,21,198,215,219,174,200,3,107,96,215,221,135,91,62,179,115,135,66,201,77,17,216,155,216>>>>,
      <<<<"c", "h", "r", "U", "n", ":", "0", "0", ":", "A", ":", "A", ":", "A">>,
        <<186,32,44,249,206,111,39,53,21,6,46,31,235,150,187,88,123,246,224,67,62,132,164,252,202,21,69,1,252,68,86,77,112,67,75,162,71,17,12,3,163,0,206,19,74,122,70,191,60,74,124,52,246,163,187,123,151,129,163,207,150,240,206,164>>>>,
      <<<<"c", "h", "r", "U", "n", ":", "0", "0", ":", "A", ":", "A", ":", "A", ":", "A">>,
        <<115,86,203,237,247,40,174,84,44,236,73,254,243,219,111,59,189,68,187,248,255,31,246,42,193,3,251,187,232,99,171,196,93,35,199,87,110,48,247,133,102,18,246,53,163,157,46,242,99,102,8,40,16,94,136,16,255,182,44,250,165,38,41,252>>>>,
      <<<<"c", "h", "r", "U", "n", ":", "0", "1", ":", "A", ":", "A">>,
        <<160,168,56,235,234,38,169,241,36,79,218,42,148,49,215,114,159,46,153,180,109,188,98,127,200,177,184,198,67,194,95,197,8,213,130,180,96,54,158,248,172,58,108,12,199,17,132,232,221,218,207,222,202,23,0,70,209,154,25,223,200,173,211,7>>>>,
      <<<<"c", "h", "r", "U", "n", ":", "0", "1", ":", "A", ":", "A", ":", "A">>,
        <<135,245,253,61,180,81,237,22,201,217,162,47,226,72,97,75,201,148,67,10,7,193,225,157,184,116,1,60,199,69,73,170,78,247,154,218,146,90,13,118,112,89,184,164,230,163,88,248,122,95,93,174,106,198,128,41,154,66,99,221,54,23,38,101>>>>,
      <<<<"c", "h", "r", "U", "n", ":", "0", "1", ":", "A", ":", "A", ":", "A", ":", "A">>,
        <<235,39,193,24,168,78,113,171,216,146,179,204,174,100,83,146,94,208,46,167,89,26,65,43,50,241,131,149,169,77,125,79,161,100,89,191,26,35,254,122,124,170,124,137,108,36,16,35,233,138,80,160,223,95,172,167,228,146,182,65,106,139,166,27>>>>,
      <<<<"c", "h", "r", "U", "n", ":", "0", "2", ":", "A", ":", "A">>,
        <<193,222,129,124,137,205,231,210,176,80,112,51,104,122,61,62,81,111,48,78,27,117,87,236,153,166,86,180,106,126,67,2,56,149,156,157,77,92,204,250,129,95,91,211,208,222,208,155,45,45,101,240,123,142,209,134,173,47,95,11,72,224,37,100>>>>,
      <<<<"c", "h", "r", "U", "n", ":", "0", "2", ":", "A", ":", "A", ":", "A">>,
        <<15,86,139,231,33,31,90,170,162,144,239,247,243,230,70,68,82,183,174,84,167,133,248,99,248,165,37,113,37,192,175,191,40,24,2,179,84,153,154,86,229,170,226,21,142,70,231,132,69,237,174,97,104,30,188,76,120,98,65,31,24,94,148,89>>>>,
      <<<<"c", "h", "r", "U", "n", ":", "0", "2", ":", "A", ":", "A", ":", "A", ":", "A">>,
        <<236,244,41,10,165,152,175,208,29,179,201,247,106,253,152,200,145,156,240,202,117,132,11,128,237,109,97,218,15,52,145,205,185,239,187,199,34,188,27,20,129,47,217,102,48,162,224,223,11,175,242,156,171,33,116,117,180,201,14,181,5,249,204,249>>>>,
      <<<<"U", "n", ":", "0", ":", "A", ":", "A">>,
        <<43,229,70,34,222,125,165,31,49,122,84,111,183,216,5,246,226,208,136,107,199,55,114,128,228,81,0,138,38,120,22,124,153,202,228,119,118,107,33,87,86,30,251,148,59,131,59,26,193,251,226,39,25,6,118,18,242,8,156,209,59,0,130,249>>>>,
      <<<<"U", "n", ":", "0", ":", "A", ":", "A", ":", "A">>,
        <<237,33,164,186,143,157,169,255,218,12,173,223,67,17,149,89,152,126,104,58,10,207,61,230,80,245,80,235,8,142,200,59,44,68,25,181,136,112,226,66,247,131,196,133,157,184,126,156,18,81,134,68,212,61,21,168,177,106,61,194,6,22,91,75>>>>,
      <<<<"U", "n", ":", "0", ":", "A", ":", "A", ":", "A", ":", "A">>,
        <<176,56,100,112,39,106,1,237,49,125,60,77,109,150,108,246,145,202,119,230,160,54,162,172,199,77,125,137,107,4,20,225,202,27,2,234,108,213,28,41,117,205,29,149,21,168,71,53,60,166,164,207,86,110,21,232,165,130,137,129,221,115,48,76>>>>,
      <<<<"U", "n", ":", "1", ":", "A", ":", "A">>,
        <<196,151,201,7,1,50,223,80,145,193,4,136,174,37,160,162,239,242,87,246,18,130,187,5,223,50,52,249,112,65,251,239,176,110,253,0,135,143,105,66,40,15,153,45,167,202,8,222,218,181,232,240,102,155,254,34,173,74,65,48,111,223,116,101>>>>,
      <<<<"U", "n", ":", "1", ":", "A", ":", "A", ":", "A">>,
        <<254,160,240,62,102,199,128,52,210,137,32,125,38,5,82,212,173,118,223,188,140,160,44,114,91,169,11,108,22,127,117,183,106,31,174,253,109,64,148,11,236,44,215,187,140,79,181,47,202,157,154,55,28,197,52,112,54,120,240,212,123,15,174,184>>>>,
      <<<<"U", "n", ":", "1", ":", "A", ":", "A", ":", "A", ":", "A">>,
        <<138,32,3,105,20,49,95,251,214,143,220,165,26,41,85,109,206,96,121,45,90,65,56,68,69,88,226,210,123,223,24,220,251,57,55,88,247,178,159,205,74,179,115,242,20,95,209,102,102,40,255,17,111,151,25,61,222,49,226,7,119,173,11,107>>>>,
      <<<<"U", "n", ":", "2", ":", "A", ":", "A">>,
        <<145,187,154,223,224,114,165,204,70,87,208,138,127,180,211,196,173,147,94,228,182,66,57,50,77,251,235,231,45,211,38,184,93,209,67,92,206,38,156,0,202,66,96,159,89,218,213,167,217,243,28,159,97,92,183,71,35,156,146,105,237,251,29,74>>>>,
      <<<<"U", "n", ":", "2", ":", "A", ":", "A", ":", "A">>,
        <<140,251,82,16,236,186,190,117,179,234,77,134,154,234,97,17,181,184,95,235,73,197,54,189,92,229,169,147,211,44,123,15,13,119,146,245,93,32,192,35,151,198,101,246,101,227,226,162,147,246,189,186,34,53,234,86,102,46,210,248,207,147,158,229>>>>,
      <<<<"U", "n", ":", "2", ":", "A", ":", "A", ":", "A", ":", "A">>,
        <<224,202,96,149,102,1,250,182,194,98,44,140,6,198,49,178,177,253,216,5,180,180,102,163,160,112,48,154,233,215,196,108,108,25,213,177,45,124,137,218,216,147,50,249,39,114,34,81,163,187,45,177,128,237,134,196,145,194,37,120,86,203,251,203>>>>,
      <<<<"U", "n", ":", "0", "0", ":", "A", ":", "A">>,
        <<156,149,69,205,241,135,247,25,60,85,194,178,156,74,100,154,156,221,147,112,5,132,150,45,195,116,136,166,13,179,67,244,2,43,45,61,223,111,206,148,188,247,39,91,240,163,115,23,50,106,22,240,109,37,7,114,20,23,183,1,64,29,254,98>>>>,
      <<<<"U", "n", ":", "0", "0", ":", "A", ":", "A", ":", "A">>,
        <<136,102,62,82,31,238,157,40,182,65,21,234,112,49,89,100,147,58,115,158,209,215,6,222,83,140,47,183,171,206,210,54,164,18,178,157,30,21,82,223,65,119,82,228,145,146,57,23,77,142,231,92,201,211,171,41,162,71,200,114,152,74,124,206>>>>,
      <<<<"U", "n", ":", "0", "0", ":", "A", ":", "A", ":", "A", ":", "A">>,
        <<49,179,74,120,45,45,95,216,10,175,200,222,158,20,181,164,42,20,137,217,177,62,227,103,96,54,182,185,128,117,212,202,142,226,216,167,66,99,140,6,36,122,120,4,127,127,21,245,153,128,134,168,50,199,126,19,30,242,247,83,233,166,21,226>>>>,
      <<<<"U", "n", ":", "0", "1", ":", "A", ":", "A">>,
        <<96,225,198,67,241,249,204,228,114,74,240,50,194,99,100,100,153,44,199,198,100,234,33,135,148,239,169,171,91,57,220,165,119,210,251,239,137,131,168,157,204,141,115,12,162,197,89,52,89,98,179,128,231,88,122,42,6,111,159,54,80,18,185,233>>>>,
      <<<<"U", "n", ":", "0", "1", ":", "A", ":", "A", ":", "A">>,
        <<175,104,64,204,111,58,15,163,84,10,2,194,137,73,240,111,43,21,137,255,247,102,93,150,85,199,146,73,200,148,119,186,34,42,181,10,236,9,86,49,174,107,77,89,19,252,254,31,45,144,226,127,28,132,248,35,98,42,154,167,235,155,55,103>>>>,
      <<<<"U", "n", ":", "0", "1", ":", "A", ":", "A", ":", "A", ":", "A">>,
        <<95,102,33,170,145,163,170,151,203,238,2,252,245,5,112,218,36,80,136,83,232,85,12,51,42,126,38,87,143,67,104,122,99,164,145,140,212,236,132,154,1,190,135,236,75,232,228,8,98,37,112,238,150,169,80,111,240,93,171,234,155,203,249,16>>>>,
      <<<<"U", "n", ":", "0", "2", ":", "A", ":", "A">>,
        <<150,191,102,24,197,238,65,173,127,74,142,96,232,33,38,193,181,188,187,239,171,22,128,143,160,245,15,224,203,174,118,76,8,211,103,62,123,208,135,43,142,75,18,94,155,10,41,212,31,184,25,101,41,80,200,16,119,252,66,110,186,32,253,133>>>>,
      <<<<"U", "n", ":", "0", "2", ":", "A", ":", "A", ":", "A">>,
        <<250,129,111,107,29,206,158,145,205,128,26,33,148,65,214,218,203,107,86,200,154,176,83,203,73,80,73,143,24,29,58,101,113,118,1,154,231,70,224,81,19,128,244,171,193,92,211,108,18,176,126,174,202,47,92,37,242,198,199,124,135,17,119,35>>>>,
      <<<<"U", "n", ":", "0", "2", ":", "A", ":", "A", ":", "A", ":", "A">>,
        <<25,75,201,131,85,204,174,183,230,15,1,181,23,24,71,31,248,136,81,172,217,5,107,192,8,2,61,171,11,5,188,124,152,189,125,228,21,238,155,243,148,67,139,196,7,13,114,111,93,131,131,51,76,21,128,117,103,104,102,67,199,94,23,63>>>>,
      <<<<"U", "N", ":", "0", ":", "A", ":", "A">>,
        <<159,64,84,242,89,42,146,233,75,76,117,14,22,67,133,48,146,36,89,9,179,132,16,255,11,196,180,189,203,43,158,140,122,221,227,235,23,255,89,9,90,187,196,166,249,35,240,245,216,66,58,5,231,236,31,104,98,218,228,58,196,155,123,206>>>>,
      <<<<"U", "N", ":", "0", ":", "A", ":", "A", ":", "A">>,
        <<58,102,27,93,174,133,65,232,26,251,116,98,6,46,75,84,93,0,201,118,2,67,127,92,195,144,144,184,160,234,87,220,216,59,70,143,72,56,247,104,137,217,202,23,174,253,167,155,250,38,58,63,155,245,80,48,50,190,77,155,203,75,141,236>>>>,
      <<<<"U", "N", ":", "0", ":", "A", ":", "A", ":", "A", ":", "A">>,
        <<101,99,47,61,130,164,224,221,138,196,255,164,218,0,92,94,201,37,174,231,109,248,15,35,52,168,164,23,10,49,142,7,234,90,176,34,70,0,1,23,149,156,237,155,76,173,48,70,248,109,192,131,47,129,247,209,108,11,132,150,7,179,20,51>>>>,
      <<<<"U", "N", ":", "1", ":", "A", ":", "A">>,
        <<46,101,24,52,218,191,209,25,85,221,14,249,168,181,48,228,129,103,56,223,205,191,44,158,164,30,66,170,12,16,115,58,109,143,192,121,8,161,244,80,154,248,187,215,93,108,36,103,148,161,170,143,91,105,174,142,218,109,67,250,3,107,227,90>>>>,
      <<<<"U", "N", ":", "1", ":", "A", ":", "A", ":", "A">>,
        <<40,111,34,19,11,85,213,76,138,137,6,139,158,35,135,58,188,119,109,242,237,55,35,100,17,196,189,9,63,208,23,237,163,174,142,231,119,179,24,92,99,7,187,137,70,17,151,36,39,214,207,108,215,134,82,149,239,136,166,219,250,188,186,195>>>>,
      <<<<"U", "N", ":", "1", ":", "A", ":", "A", ":", "A", ":", "A">>,
        <<154,24,92,167,180,174,198,32,51,161,212,31,197,28,226,184,108,132,90,24,75,66,77,8,207,154,214,67,95,99,138,19,51,82,196,188,4,154,205,11,168,198,85,250,49,130,167,173,247,14,51,129,204,195,201,128,187,214,45,157,53,56,101,57>>>>,
      <<<<"U", "N", ":", "2", ":", "A", ":", "A">>,
        <<4,59,145,37,143,153,213,222,10,169,74,162,196,237,116,214,141,114,114,233,98,158,56,90,182,156,7,160,124,118,152,86,44,157,144,2,231,223,221,176,131,0,88,87,77,66,47,2,102,8,93,104,103,119,8,9,72,15,224,141,54,181,189,68>>>>,
      <<<<"U", "N", ":", "2", ":", "A", ":", "A", ":", "A">>,
        <<112,196,219,198,218,129,175,117,72,252,161,216,145,127,202,155,233,94,166,56,59,214,62,71,198,166,147,66,161,179,44,88,39,69,191,244,59,17,110,131,224,59,25,93,173,190,55,87,3,176,3,43,201,189,114,41,69,172,239,64,148,178,15,18>>>>,
      <<<<"U", "N", ":", "2", ":", "A", ":", "A", ":", "A", ":", "A">>,
        <<175,8,173,137,231,8,172,151,17,226,218,158,188,235,22,254,28,97,191,107,44,184,179,145,11,68,146,254,185,117,0,54,182,181,11,14,61,73,55,49,116,76,158,54,32,14,87,192,159,182,131,18,217,215,104,193,216,29,137,37,253,43,150,160>>>>,
      <<<<"U", "N", ":", "0", "0", ":", "A", ":", "A">>,
        <<123,85,13,201,72,204,17,207,226,0,10,233,188,179,104,63,38,121,221,80,222,39,49,194,91,76,203,217,7,79,165,63,119,26,9,232,74,198,76,38,252,223,172,53,154,22,116,89,48,240,101,166,170,126,255,251,105,218,181,70,13,237,135,29>>>>,
      <<<<"U", "N", ":", "0", "0", ":", "A", ":", "A", ":", "A">>,
        <<99,65,169,39,235,57,86,26,12,182,184,203,96,48,108,43,216,250,109,65,208,230,19,180,140,105,25,175,163,246,155,78,240,166,17,21,132,58,183,193,202,123,228,2,55,154,6,103,5,229,226,106,121,176,159,100,249,109,232,106,161,197,45,103>>>>,
      <<<<"U", "N", ":", "0", "0", ":", "A", ":", "A", ":", "A", ":", "A">>,
        <<37,50,47,60,55,126,155,159,219,138,33,91,117,54,206,140,234,158,252,15,204,120,56,36,90,79,52,77,19,94,166,45,255,24,231,127,222,103,118,244,169,115,50,34,51,138,107,59,135,216,227,166,83,121,79,164,52,252,208,137,241,85,207,241>>>>,
      <<<<"U", "N", ":", "0", "1", ":", "A", ":", "A">>,
        <<156,242,106,197,232,12,91,137,39,19,251,164,7,87,132,72,116,190,241,113,149,137,215,110,107,42,113,236,85,114,248,118,74,35,109,231,182,154,229,64,156,129,221,115,79,128,209,103,234,205,72,198,255,141,154,59,163,40,163,68,64,42,90,233>>>>,
      <<<<"U", "N", ":", "0", "1", ":", "A", ":", "A", ":", "A">>,
        <<51,227,68,50,79,122,235,131,160,226,223,192,67,226,212,57,137,169,162,200,79,237,151,96,141,178,173,87,154,181,51,82,22,223,13,59,13,231,165,158,93,8,110,255,93,207,176,159,186,59,124,137,58,202,254,51,12,54,150,42,5,238,239,166>>>>,
      <<<<"U", "N", ":", "0", "1", ":", "A", ":", "A", ":", "A", ":", "A">>,
        <<199,56,87,211,78,78,78,144,1,193,53,18,47,209,187,11,101,103,233,168,170,98,185,27,85,67,239,82,10,196,22,157,98,152,78,187,17,150,235,92,78,232,210,111,89,10,228,139,96,204,182,214,241,162,123,210,174,17,91,127,179,235,21,87>>>>,
      <<<<"U", "N", ":", "0", "2", ":", "A", ":", "A">>,
        <<175,227,184,214,129,28,27,43,5,64,186,3,198,252,28,196,191,182,154,107,95,119,20,200,56,153,122,55,55,24,24,192,238,241,140,55,99,233,198,54,96,86,109,106,147,15,240,203,159,179,119,254,29,218,238,76,71,193,243,37,67,58,11,68>>>>,
      <<<<"U", "N", ":", "0", "2", ":", "A", ":", "A", ":", "A">>,
        <<229,171,3,24,125,19,24,66,128,3,247,142,205,44,113,243,54,169,110,187,186,186,33,254,153,1,100,125,157,217,239,208,246,106,89,242,33,54,226,28,39,81,18,100,206,162,154,156,131,246,181,158,220,236,81,56,31,167,241,66,62,235,211,1>>>>,
      <<<<"U", "N", ":", "0", "2", ":", "A", ":", "A", ":", "A", ":", "A">>,
        <<213,138,133,126,212,63,52,191,180,116,128,223,160,115,242,110,133,110,214,9,1,67,236,73,133,74,45,155,243,10,180,127,114,79,145,182,249,42,12,238,201,131,144,186,8,234,241,117,189,134,17,72,196,228,234,182,15,245,144,149,121,193,189,230>>>>,
      <<<<"c", "h", "r", ":", "0", ":", "A", ":", "A">>,
        <<43,37,97,189,45,13,217,41,7,202,70,95,33,137,123,185,145,81,242,162,186,55,209,248,103,73,149,133,245,158,31,19,159,121,124,160,55,167,21,69,81,166,206,22,153,136,171,69,142,115,212,167,34,173,96,79,110,36,140,128,175,150,48,7>>>>,
      <<<<"c", "h", "r", ":", "0", ":", "A", ":", "A", ":", "A">>,
        <<123,94,196,103,241,19,14,4,198,159,242,163,34,143,6,37,182,107,13,137,228,51,2,151,62,247,19,9,214,33,102,78,93,226,84,88,214,213,194,211,18,164,36,9,55,211,180,82,130,211,165,192,108,110,90,163,50,113,228,138,5,141,105,133>>>>,
      <<<<"c", "h", "r", ":", "0", ":", "A", ":", "A", ":", "A", ":", "A">>,
        <<190,17,61,155,107,139,183,118,158,67,36,180,125,19,197,54,0,212,240,58,220,204,190,60,146,177,36,161,201,26,164,170,221,167,240,149,234,100,103,38,68,234,179,93,252,64,28,83,111,18,71,63,237,53,98,20,86,18,87,38,166,178,197,178>>>>,
      <<<<"c", "h", "r", ":", "1", ":", "A", ":", "A">>,
        <<223,33,248,153,74,140,30,228,194,10,221,80,64,191,132,223,143,185,72,110,145,45,120,17,89,194,203,232,221,252,109,36,133,132,239,107,138,250,208,113,203,118,171,44,46,164,133,125,147,71,249,175,115,238,16,143,119,141,49,158,240,235,41,76>>>>,
      <<<<"c", "h", "r", ":", "1", ":", "A", ":", "A", ":", "A">>,
        <<100,178,72,197,116,10,190,90,6,248,68,163,161,79,204,192,113,102,49,111,170,97,164,254,185,203,27,143,227,53,149,48,33,3,164,224,205,119,237,40,22,74,120,213,169,50,76,61,56,254,215,186,73,250,112,68,220,244,205,166,54,17,212,78>>>>,
      <<<<"c", "h", "r", ":", "1", ":", "A", ":", "A", ":", "A", ":", "A">>,
        <<39,157,134,41,102,69,8,67,96,81,180,71,109,167,49,125,183,60,235,4,195,127,227,134,52,253,99,222,126,144,175,13,236,182,25,185,179,91,64,15,68,37,207,213,93,17,130,171,140,168,220,7,221,209,254,233,20,51,67,229,30,21,126,15>>>>,
      <<<<"c", "h", "r", ":", "2", ":", "A", ":", "A">>,
        <<229,2,3,58,201,245,172,135,165,228,118,189,32,163,11,107,11,239,196,88,194,17,236,149,100,194,163,110,177,39,60,204,237,145,32,109,241,47,134,237,173,56,118,23,64,228,215,19,225,95,145,53,107,11,68,80,38,29,124,220,191,84,78,35>>>>,
      <<<<"c", "h", "r", ":", "2", ":", "A", ":", "A", ":", "A">>,
        <<75,188,193,85,82,248,145,165,146,116,106,239,62,110,73,212,220,103,141,235,108,209,18,150,55,59,104,114,223,211,126,6,65,94,76,107,75,107,32,104,62,107,143,35,166,32,183,56,180,162,184,86,231,216,39,136,124,241,59,118,72,179,108,95>>>>,
      <<<<"c", "h", "r", ":", "2", ":", "A", ":", "A", ":", "A", ":", "A">>,
        <<167,1,74,113,108,211,112,173,242,40,187,232,112,63,212,3,218,234,229,141,95,211,20,67,100,240,114,147,117,64,163,174,189,28,225,48,110,254,125,200,40,13,226,160,141,212,209,99,244,154,240,156,2,62,38,163,199,29,222,182,64,213,145,16>>>>,
      <<<<"c", "h", "r", ":", "0", "0", ":", "A", ":", "A">>,
        <<120,172,252,5,158,87,240,199,243,234,85,38,122,109,216,158,67,10,204,218,9,56,18,199,15,240,60,6,143,213,41,148,242,115,224,150,95,124,126,70,220,236,13,185,199,95,254,72,34,203,29,87,4,27,250,236,37,127,10,103,41,5,247,110>>>>,
      <<<<"c", "h", "r", ":", "0", "0", ":", "A", ":", "A", ":", "A">>,
        <<139,63,27,116,56,224,169,40,57,144,176,146,255,9,119,185,94,160,201,108,252,31,88,112,78,53,111,109,119,161,186,15,28,175,235,45,180,34,70,103,119,123,163,41,128,8,112,204,29,183,117,118,155,249,12,108,209,80,4,75,149,145,190,168>>>>,
      <<<<"c", "h", "r", ":", "0", "0", ":", "A", ":", "A", ":", "A", ":", "A">>,
        <<37,46,237,138,108,185,124,215,115,184,223,61,187,141,149,210,2,32,46,137,17,174,135,119,91,54,162,105,121,185,184,94,176,171,247,95,10,68,174,235,241,217,79,157,82,148,2,102,168,99,149,196,215,41,146,18,161,101,181,117,255,238,198,109>>>>,
      <<<<"c", "h", "r", ":", "0", "1", ":", "A", ":", "A">>,
        <<188,62,165,31,243,202,219,151,111,78,2,209,190,24,178,5,131,9,219,206,154,63,159,189,70,119,9,108,139,188,238,233,194,232,141,29,153,170,167,117,129,80,153,38,81,218,218,230,244,2,100,79,135,248,140,133,88,176,15,169,85,72,120,124>>>>,
      <<<<"c", "h", "r", ":", "0", "1", ":", "A", ":", "A", ":", "A">>,
        <<143,219,32,185,176,254,124,117,244,244,248,114,131,218,40,22,25,44,124,69,79,129,197,179,248,89,127,131,174,152,180,7,233,201,250,227,152,31,125,127,120,48,216,184,205,11,122,71,163,4,22,50,167,59,118,243,203,33,237,60,38,147,10,207>>>>,
      <<<<"c", "h", "r", ":", "0", "1", ":", "A", ":", "A", ":", "A", ":", "A">>,
        <<73,4,151,233,78,50,254,165,23,173,40,157,130,12,105,18,13,251,10,78,114,117,76,128,80,11,174,0,102,149,187,127,18,93,183,198,129,69,138,176,82,45,240,76,38,210,236,71,193,3,40,156,58,5,203,219,62,2,188,248,130,185,33,128>>>>,
      <<<<"c", "h", "r", ":", "0", "2", ":", "A", ":", "A">>,
        <<201,5,96,26,179,86,76,22,41,91,81,79,148,55,240,246,195,174,13,224,248,21,82,127,180,183,105,55,59,142,23,173,27,191,219,216,131,225,13,98,55,18,153,238,231,49,41,141,12,154,62,228,137,190,126,9,49,117,228,30,131,68,16,174>>>>,
      <<<<"c", "h", "r", ":", "0", "2", ":", "A", ":", "A", ":", "A">>,
        <<99,110,112,76,111,13,76,244,212,104,48,205,55,205,89,104,188,7,68,79,143,38,233,135,188,80,160,136,7,34,77,247,57,60,247,16,78,255,255,215,179,165,196,46,113,59,71,233,174,43,223,119,138,7,72,193,34,27,30,92,237,63,86,188>>>>,
      <<<<"c", "h", "r", ":", "0", "2", ":", "A", ":", "A", ":", "A", ":", "A">>,
        <<200,59,57,153,59,102,56,187,153,67,56,143,13,41,55,37,222,127,118,71,189,192,37,212,16,222,189,207,158,202,77,162,108,218,135,64,196,134,196,33,161,84,10,45,137,31,16,230,194,61,145,131,236,195,246,198,9,89,123,236,120,127,20,50>>>>,
      <<<<":", "0", ":", "A", ":", "A">>,
        <<73,24,49,142,53,113,176,88,83,157,55,110,182,120,218,53,149,249,91,22,3,246,15,167,56,4,210,48,206,82,248,169,93,128,64,23,133,227,75,79,164,109,97,221,162,146,126,22,32,65,154,90,145,176,104,10,248,17,188,77,178,95,132,27>>>>,
      <<<<":", "0", ":", "A", ":", "A", ":", "A">>,
        <<143,86,162,74,206,40,206,201,85,178,63,120,111,86,64,230,63,113,132,136,197,192,10,95,15,191,222,9,230,173,49,248,68,156,188,112,121,107,68,205,129,39,217,140,40,91,7,45,109,76,168,27,100,249,228,4,226,48,14,188,120,204,65,23>>>>,
      <<<<":", "0", ":", "A", ":", "A", ":", "A", ":", "A">>,
        <<155,136,58,98,67,28,107,85,96,141,180,108,173,204,119,45,194,231,4,243,65,16,164,36,224,243,167,230,38,48,148,157,24,171,171,45,148,180,75,75,161,70,125,177,48,211,153,210,125,0,157,2,195,178,62,110,38,235,165,128,98,82,72,41>>>>,
      <<<<":", "1", ":", "A", ":", "A">>,
        <<147,193,194,98,226,157,153,101,50,204,254,118,60,248,45,132,103,238,41,146,32,14,140,39,206,248,215,219,219,226,157,253,250,78,215,57,115,54,147,110,154,222,60,195,90,153,217,50,185,115,0,39,179,33,4,245,183,85,242,122,164,137,45,205>>>>,
      <<<<":", "1", ":", "A", ":", "A", ":", "A">>,
        <<38,21,2,180,64,34,245,15,84,46,188,234,244,208,74,161,112,52,150,187,95,73,136,24,93,155,198,21,84,27,6,170,114,39,105,19,52,31,230,12,128,74,15,213,221,150,15,2,0,69,206,123,95,45,26,203,189,140,105,80,164,27,102,103>>>>,
      <<<<":", "1", ":", "A", ":", "A", ":", "A", ":", "A">>,
        <<109,50,131,35,171,227,90,182,113,130,137,85,48,48,54,122,37,118,197,120,55,29,23,67,210,210,39,91,60,168,14,245,200,130,21,21,51,235,117,5,60,62,63,11,146,157,209,198,248,247,81,240,153,254,102,129,95,227,234,198,71,105,177,9>>>>,
      <<<<":", "2", ":", "A", ":", "A">>,
        <<48,141,198,201,125,175,158,44,218,236,43,122,62,161,255,233,137,41,179,190,214,102,179,228,187,100,136,200,187,92,157,120,164,94,247,71,133,113,60,88,90,181,22,119,124,170,84,114,82,34,145,226,3,210,174,247,211,82,88,16,170,132,84,230>>>>,
      <<<<":", "2", ":", "A", ":", "A", ":", "A">>,
        <<146,16,27,88,106,188,212,220,144,92,14,222,170,154,91,36,194,255,71,178,90,46,56,39,225,166,111,176,63,179,2,201,122,1,60,8,208,81,234,73,239,13,205,153,23,215,190,200,131,8,9,240,207,175,245,171,120,40,163,240,65,19,171,147>>>>,
      <<<<":", "2", ":", "A", ":", "A", ":", "A", ":", "A">>,
        <<74,144,19,145,244,211,149,200,38,159,120,198,91,99,180,51,44,178,171,162,49,196,166,151,215,178,15,76,145,240,157,11,109,46,236,81,202,95,23,229,76,55,204,107,213,242,69,19,23,61,228,134,207,91,189,249,252,136,236,29,3,229,139,118>>>>,
      <<<<":", "0", "0", ":", "A", ":", "A">>,
        <<15,79,27,18,115,127,16,168,222,163,154,13,195,86,56,92,195,185,141,161,188,243,217,128,101,119,217,185,115,93,144,191,251,46,82,196,46,153,148,53,227,214,113,190,246,45,250,36,65,151,50,247,66,168,103,180,0,22,59,150,91,231,198,85>>>>,
      <<<<":", "0", "0", ":", "A", ":", "A", ":", "A">>,
        <<10,248,23,72,165,1,75,16,81,55,144,32,234,254,102,231,121,194,80,139,225,96,240,252,46,214,139,5,182,187,64,6,211,242,3,66,221,162,179,162,204,108,58,81,174,95,41,232,83,52,249,169,13,157,48,121,198,146,108,57,82,48,241,136>>>>,
      <<<<":", "0", "0", ":", "A", ":", "A", ":", "A", ":", "A">>,
        <<218,69,46,228,131,208,173,213,199,244,4,74,139,214,64,114,92,48,78,251,123,75,6,84,146,139,67,239,253,137,209,164,57,246,240,51,221,179,45,12,37,217,253,61,235,242,23,138,35,117,241,193,145,142,9,9,194,84,30,181,114,25,196,62>>>>,
      <<<<":", "0", "1", ":", "A", ":", "A">>,
        <<46,185,83,242,28,75,217,142,162,191,200,129,117,64,106,135,146,62,72,89,197,178,174,101,89,96,64,97,81,111,17,113,34,169,150,94,145,2,90,143,160,18,205,33,215,118,32,111,33,102,237,114,62,237,217,158,0,159,152,205,236,30,6,245>>>>,
      <<<<":", "0", "1", ":", "A", ":", "A", ":", "A">>,
        <<70,89,87,130,217,129,232,189,22,166,95,158,145,80,107,132,23,129,251,191,113,148,183,200,242,179,45,120,18,171,105,20,71,42,125,27,21,191,148,59,30,204,179,139,151,161,45,45,23,87,101,190,101,177,24,121,33,152,62,182,86,214,255,138>>>>,
      <<<<":", "0", "1", ":", "A", ":", "A", ":", "A", ":", "A">>,
        <<55,204,156,190,53,86,249,122,7,138,21,195,108,183,228,224,122,245,151,59,71,84,248,241,40,234,51,176,147,48,156,14,167,16,196,166,74,50,164,167,174,184,213,179,114,182,124,114,86,229,78,186,200,150,220,107,157,9,97,0,12,84,28,217>>>>,
      <<<<":", "0", "2", ":", "A", ":", "A">>,
        <<97,172,77,94,144,188,196,156,129,36,230,246,244,165,85,4,39,233,158,55,225,183,221,27,21,216,252,168,133,44,21,207,97,66,40,94,105,2,206,99,208,162,11,149,176,139,134,172,237,16,52,112,194,251,172,47,192,227,23,199,198,170,172,9>>>>,
      <<<<":", "0", "2", ":", "A", ":", "A", ":", "A">>,
        <<249,212,140,145,30,187,156,158,228,92,16,148,215,3,210,0,237,251,122,37,71,5,126,173,24,145,69,232,163,139,223,42,74,6,57,42,212,10,7,230,7,204,226,34,28,74,135,34,232,50,88,102,79,218,31,183,166,141,212,136,143,157,87,240>>>>,
      <<<<":", "0", "2", ":", "A", ":", "A", ":", "A", ":", "A">>,
        <<32,219,79,20,227,217,118,189,239,52,221,105,40,197,8,186,249,219,96,227,223,180,241,146,71,52,97,118,244,30,71,80,161,213,219,45,43,162,46,53,195,12,107,38,99,48,12,189,68,38,169,39,86,43,85,30,121,130,192,184,138,162,107,204>>>>,
      <<<<"C", "h", "r", "X", ":", "0", ":", "A", ":", "A">>,
        <<182,78,219,242,26,4,239,193,102,76,162,143,82,242,221,109,179,125,129,235,45,57,36,153,90,149,232,55,233,56,139,5,105,140,56,46,112,45,142,209,150,182,217,189,39,196,39,73,193,28,215,105,207,92,105,71,119,87,3,225,172,29,133,2>>>>,
      <<<<"C", "h", "r", "X", ":", "0", ":", "A", ":", "A", ":", "A">>,
        <<104,51,68,201,105,213,44,130,245,41,105,253,158,40,140,237,247,26,199,204,207,205,141,32,92,226,106,107,194,96,107,8,197,182,12,141,222,56,252,119,17,157,222,150,58,223,130,1,135,223,200,77,34,246,66,141,45,219,150,9,188,44,241,253>>>>,
      <<<<"C", "h", "r", "X", ":", "0", ":", "A", ":", "A", ":", "A", ":", "A">>,
        <<123,5,174,99,55,72,14,147,2,70,188,128,47,179,26,164,164,154,228,145,26,177,151,77,6,10,94,235,103,84,9,4,60,50,123,235,251,51,197,92,145,18,7,219,160,196,187,215,9,190,65,61,40,90,153,73,128,53,245,251,107,86,28,135>>>>,
      <<<<"C", "h", "r", "X", ":", "1", ":", "A", ":", "A">>,
        <<221,172,77,170,55,138,154,37,204,253,142,209,173,1,56,155,44,54,82,193,159,26,109,166,71,45,71,41,146,111,225,79,76,141,18,213,10,199,35,70,24,251,205,201,154,198,255,4,137,125,4,65,135,8,18,176,108,3,205,232,88,84,214,69>>>>,
      <<<<"C", "h", "r", "X", ":", "1", ":", "A", ":", "A", ":", "A">>,
        <<110,132,242,19,207,159,11,212,5,10,99,32,43,246,76,252,254,73,117,58,253,240,187,212,209,74,147,125,80,253,243,39,163,229,137,183,24,176,204,221,39,242,138,9,130,139,85,24,189,140,44,96,227,228,197,59,36,247,144,59,39,122,116,107>>>>,
      <<<<"C", "h", "r", "X", ":", "1", ":", "A", ":", "A", ":", "A", ":", "A">>,
        <<250,83,228,242,146,19,240,208,28,143,182,81,87,160,98,194,120,166,134,96,51,69,71,66,233,192,11,106,218,7,63,62,83,177,98,228,128,220,197,213,136,230,221,232,24,174,88,239,39,116,177,22,165,96,34,13,0,146,222,88,26,207,128,68>>>>,
      <<<<"C", "h", "r", "X", ":", "2", ":", "A", ":", "A">>,
        <<53,143,182,53,224,160,107,216,191,113,189,82,161,8,236,32,162,224,47,244,67,169,253,241,121,136,23,136,245,47,55,249,175,186,6,207,219,157,235,65,176,100,213,57,96,131,218,101,161,97,41,70,211,37,180,44,103,17,52,99,62,219,124,234>>>>,
      <<<<"C", "h", "r", "X", ":", "2", ":", "A", ":", "A", ":", "A">>,
        <<183,139,8,152,122,34,140,126,58,90,201,170,83,206,148,212,184,137,120,197,5,23,185,64,156,66,227,82,24,48,254,208,161,155,229,174,245,247,44,167,4,120,236,16,127,170,219,26,136,245,89,144,175,90,168,39,48,218,235,152,165,236,156,35>>>>,
      <<<<"C", "h", "r", "X", ":", "2", ":", "A", ":", "A", ":", "A", ":", "A">>,
        <<14,112,22,151,186,251,200,85,139,255,173,63,118,32,97,245,24,172,137,79,149,140,231,75,118,115,53,186,78,174,40,125,26,207,69,56,169,171,186,170,191,122,146,7,92,71,167,155,80,215,165,94,85,149,28,75,1,28,36,109,95,5,16,85>>>>,
      <<<<"C", "h", "r", "X", ":", "0", "0", ":", "A", ":", "A">>,
        <<211,2,153,35,48,11,25,126,96,98,237,9,146,19,243,193,42,251,233,183,185,25,82,60,212,218,239,196,239,240,144,139,28,152,216,14,91,33,233,84,14,149,47,220,243,230,40,104,53,21,151,69,145,85,48,186,193,246,108,154,63,102,171,196>>>>,
      <<<<"C", "h", "r", "X", ":", "0", "0", ":", "A", ":", "A", ":", "A">>,
        <<137,34,138,87,87,20,10,238,5,168,84,160,215,1,58,25,243,246,206,23,224,235,11,134,37,166,4,205,71,186,38,83,113,208,174,199,126,122,132,77,32,204,131,208,220,111,36,131,108,252,160,143,158,210,131,97,244,190,74,162,210,252,191,2>>>>,
      <<<<"C", "h", "r", "X", ":", "0", "0", ":", "A", ":", "A", ":", "A", ":", "A">>,
        <<160,40,238,5,1,250,243,128,240,11,44,232,70,199,213,126,221,99,74,26,139,159,139,228,76,176,71,173,234,70,29,141,75,100,210,127,123,194,218,186,224,23,50,57,129,67,240,142,200,216,92,209,28,50,162,251,112,122,4,244,2,223,232,240>>>>,
      <<<<"C", "h", "r", "X", ":", "0", "1", ":", "A", ":", "A">>,
        <<161,215,155,192,135,95,191,40,11,213,3,136,151,178,130,109,116,14,67,20,157,70,244,105,174,194,173,170,157,16,42,42,8,219,147,67,190,135,142,220,94,121,80,77,76,36,60,90,1,222,91,25,148,196,121,149,122,58,59,248,176,245,122,10>>>>,
      <<<<"C", "h", "r", "X", ":", "0", "1", ":", "A", ":", "A", ":", "A">>,
        <<171,105,167,234,151,27,112,181,49,167,134,167,132,129,234,84,224,103,152,64,163,227,49,26,246,233,57,146,73,211,28,239,167,207,46,53,96,10,235,40,134,65,184,11,43,186,227,215,143,251,24,132,235,162,9,154,187,192,102,66,109,3,227,129>>>>,
      <<<<"C", "h", "r", "X", ":", "0", "1", ":", "A", ":", "A", ":", "A", ":", "A">>,
        <<7,7,112,86,154,20,222,162,27,122,150,98,27,135,168,5,237,154,32,192,100,217,227,26,101,186,49,196,183,249,183,59,21,223,159,153,173,213,68,20,251,130,216,14,145,53,89,151,167,169,151,230,183,70,159,195,107,171,250,72,114,180,114,218>>>>,
      <<<<"C", "h", "r", "X", ":", "0", "2", ":", "A", ":", "A">>,
        <<13,151,106,237,117,202,60,210,18,52,227,115,15,145,193,175,201,73,33,66,147,170,127,87,78,171,49,65,194,75,215,217,116,45,96,164,26,5,169,217,99,200,192,122,9,174,135,18,230,127,113,236,117,230,246,157,86,90,230,155,238,155,174,115>>>>,
      <<<<"C", "h", "r", "X", ":", "0", "2", ":", "A", ":", "A", ":", "A">>,
        <<250,43,30,162,97,170,104,212,150,136,192,167,25,64,203,224,116,235,94,90,230,185,19,111,228,160,30,204,118,142,79,57,23,20,66,216,224,168,202,78,54,68,75,6,104,202,20,255,26,79,191,179,69,130,15,229,94,9,154,247,178,248,129,167>>>>,
      <<<<"C", "h", "r", "X", ":", "0", "2", ":", "A", ":", "A", ":", "A", ":", "A">>,
        <<164,111,188,184,187,170,181,81,239,169,142,0,79,138,26,223,249,164,22,91,15,70,234,31,135,62,188,22,102,188,147,168,222,65,217,152,29,31,185,247,208,152,7,164,205,93,187,142,109,85,156,49,84,235,231,241,227,13,68,186,87,196,27,220>>>>,
      <<<<"C", "H", "R", "1", ":", "0", ":", "A", ":", "A">>,
        <<47,218,169,62,235,67,49,144,150,182,210,66,75,166,27,70,44,238,175,223,58,134,56,122,2,124,134,224,209,201,55,98,230,24,156,255,138,160,179,119,35,136,200,218,54,59,204,135,60,71,16,81,53,118,1,252,124,119,47,28,103,17,207,7>>>>,
      <<<<"C", "H", "R", "1", ":", "0", ":", "A", ":", "A", ":", "A">>,
        <<250,7,202,32,153,84,46,3,209,94,181,201,47,175,250,45,95,217,74,169,86,53,142,218,218,38,195,200,250,68,159,183,59,228,2,210,172,162,16,230,159,35,185,240,157,151,206,198,224,57,239,118,10,51,20,30,108,27,231,255,11,35,214,46>>>>,
      <<<<"C", "H", "R", "1", ":", "0", ":", "A", ":", "A", ":", "A", ":", "A">>,
        <<230,126,79,228,63,22,182,59,125,129,115,137,129,128,43,105,156,35,61,213,134,54,37,171,123,2,223,175,248,125,81,129,14,91,230,246,91,200,252,33,155,14,58,135,49,114,187,141,200,231,166,173,101,108,157,187,38,94,245,229,114,206,208,198>>>>,
      <<<<"C", "H", "R", "1", ":", "1", ":", "A", ":", "A">>,
        <<46,254,40,65,220,214,53,23,50,78,234,20,76,195,239,179,146,182,17,50,255,243,217,121,55,35,65,98,143,125,57,72,172,164,46,188,52,209,63,115,218,87,198,156,61,56,186,51,214,136,210,103,248,85,65,33,192,68,153,46,85,231,99,181>>>>,
      <<<<"C", "H", "R", "1", ":", "1", ":", "A", ":", "A", ":", "A">>,
        <<221,82,37,167,14,109,227,227,136,52,44,81,38,124,60,90,175,224,22,135,221,146,129,16,180,146,224,233,79,22,65,191,66,201,159,178,45,131,92,200,195,39,26,31,254,134,131,196,127,67,190,93,249,205,84,10,141,221,184,157,66,89,199,47>>>>,
      <<<<"C", "H", "R", "1", ":", "1", ":", "A", ":", "A", ":", "A", ":", "A">>,
        <<65,27,132,148,91,205,161,83,73,248,235,164,76,208,0,157,209,59,181,178,143,151,213,84,144,97,2,97,116,199,86,51,239,210,30,233,199,110,214,77,217,150,173,192,238,137,64,51,224,76,71,172,222,157,88,78,166,45,88,238,127,247,88,143>>>>,
      <<<<"C", "H", "R", "1", ":", "2", ":", "A", ":", "A">>,
        <<125,46,246,22,16,228,11,208,144,194,184,134,131,182,228,37,12,186,250,233,96,212,182,199,72,164,58,163,195,215,223,8,155,122,208,122,247,122,29,223,20,50,224,238,102,89,18,138,247,44,13,90,242,58,144,173,154,205,215,102,96,108,94,154>>>>,
      <<<<"C", "H", "R", "1", ":", "2", ":", "A", ":", "A", ":", "A">>,
        <<242,137,173,163,85,178,202,196,219,61,222,139,222,16,187,24,100,80,51,154,136,65,93,120,154,49,74,164,177,200,220,84,182,109,25,128,100,63,127,108,79,10,90,90,33,160,197,9,80,242,236,50,130,117,176,196,96,72,179,40,29,86,51,5>>>>,
      <<<<"C", "H", "R", "1", ":", "2", ":", "A", ":", "A", ":", "A", ":", "A">>,
        <<81,44,143,173,120,133,81,139,105,43,56,105,3,147,152,149,199,241,39,238,73,35,181,204,164,196,109,190,156,89,67,110,193,39,123,138,89,62,164,97,46,84,72,208,190,88,0,155,16,37,179,136,13,106,128,159,146,154,68,246,156,63,10,37>>>>,
      <<<<"C", "H", "R", "1", ":", "0", "0", ":", "A", ":", "A">>,
        <<68,212,130,103,229,33,159,172,69,245,35,97,111,141,128,144,3,217,150,179,52,216,165,221,219,199,164,157,97,102,102,158,54,173,41,233,155,222,239,68,5,124,80,174,238,33,27,199,159,163,71,235,106,117,89,67,76,52,158,167,89,196,181,16>>>>,
      <<<<"C", "H", "R", "1", ":", "0", "0", ":", "A", ":", "A", ":", "A">>,
        <<61,218,125,64,165,251,145,115,136,56,189,210,15,245,157,235,63,218,202,175,2,34,71,160,253,156,138,15,94,236,4,68,214,95,58,59,136,0,69,190,166,122,210,105,249,22,139,126,134,46,228,8,203,6,16,107,139,156,93,126,66,176,215,161>>>>,
      <<<<"C", "H", "R", "1", ":", "0", "0", ":", "A", ":", "A", ":", "A", ":", "A">>,
        <<12,249,214,75,189,71,238,26,171,171,183,183,244,55,242,224,8,239,102,48,255,224,253,193,109,2,129,132,202,2,205,143,2,23,140,146,3,114,192,183,214,115,247,70,225,20,5,72,80,244,226,219,238,53,115,166,242,159,206,57,251,255,86,252>>>>,
      <<<<"C", "H", "R", "1", ":", "0", "1", ":", "A", ":", "A">>,
        <<247,114,193,62,87,30,8,219,129,171,104,175,18,85,133,127,248,239,68,171,210,201,163,11,205,34,41,203,118,8,153,231,219,118,145,61,142,26,188,248,198,139,193,180,237,57,35,227,185,179,84,49,16,245,250,19,106,25,19,221,119,215,197,77>>>>,
      <<<<"C", "H", "R", "1", ":", "0", "1", ":", "A", ":", "A", ":", "A">>,
        <<146,119,245,107,160,211,228,216,213,218,32,252,74,159,236,170,50,109,228,111,12,245,62,47,141,223,161,193,115,122,55,217,52,65,133,128,80,160,199,200,84,168,175,92,164,34,169,35,219,132,107,172,166,130,87,89,81,231,226,238,13,18,45,252>>>>,
      <<<<"C", "H", "R", "1", ":", "0", "1", ":", "A", ":", "A", ":", "A", ":", "A">>,
        <<26,73,140,255,170,79,112,127,248,189,132,215,38,102,240,198,213,230,38,79,52,64,136,17,248,152,99,34,204,232,108,85,18,186,212,63,246,221,236,33,249,195,238,86,239,253,161,128,147,3,88,214,93,122,42,70,190,203,118,2,162,171,164,196>>>>,
      <<<<"C", "H", "R", "1", ":", "0", "2", ":", "A", ":", "A">>,
        <<182,217,58,255,33,244,122,37,212,16,46,122,167,13,14,255,85,219,87,226,65,34,238,0,157,2,204,117,173,169,228,158,130,83,120,143,219,10,117,31,150,91,103,115,104,158,138,228,39,92,166,36,156,187,232,150,26,39,218,173,125,203,88,217>>>>,
      <<<<"C", "H", "R", "1", ":", "0", "2", ":", "A", ":", "A", ":", "A">>,
        <<157,37,133,11,46,163,172,220,11,68,9,107,174,110,91,84,113,110,31,248,233,95,138,104,114,175,59,13,41,120,176,80,163,143,37,127,38,81,172,237,91,52,225,212,36,137,79,245,18,231,78,8,17,28,126,26,168,79,242,212,126,237,69,147>>>>,
      <<<<"C", "H", "R", "1", ":", "0", "2", ":", "A", ":", "A", ":", "A", ":", "A">>,
        <<239,174,77,3,180,98,31,169,213,195,148,113,227,182,80,55,246,154,55,2,221,133,195,28,28,61,89,194,109,46,74,176,80,67,247,111,251,142,6,105,230,124,105,44,33,88,89,243,181,240,49,238,143,13,211,93,26,63,7,29,17,100,133,227>>>>,
      <<<<"c", "h", "r", "c", "h", "r", "7", ":", "0", ":", "A", ":", "A">>,
        <<72,174,249,119,127,152,122,236,126,160,236,176,249,253,197,44,152,119,199,95,177,21,252,65,170,154,93,123,191,227,212,86,34,244,201,90,226,216,135,237,84,11,239,187,103,200,18,94,102,241,165,171,153,39,223,146,87,77,161,86,171,91,141,58>>>>,
      <<<<"c", "h", "r", "c", "h", "r", "7", ":", "0", ":", "A", ":", "A", ":", "A">>,
        <<236,141,145,48,131,178,130,150,223,242,36,58,103,57,27,192,162,115,31,58,17,186,111,203,185,34,236,245,208,243,25,165,113,239,71,230,15,244,48,121,36,21,40,255,95,16,91,6,80,80,66,230,128,24,126,249,162,112,103,170,202,174,16,113>>>>,
      <<<<"c", "h", "r", "c", "h", "r", "7", ":", "0", ":", "A", ":", "A", ":", "A", ":", "A">>,
        <<89,196,234,75,238,97,228,201,211,70,72,101,140,116,177,75,161,91,200,16,88,174,230,161,117,188,197,166,46,78,23,115,236,80,10,154,221,133,16,191,74,87,225,205,187,11,199,141,39,23,64,116,30,138,147,118,165,21,101,250,72,48,4,86>>>>,
      <<<<"c", "h", "r", "c", "h", "r", "7", ":", "1", ":", "A", ":", "A">>,
        <<175,180,167,170,170,250,145,128,224,177,137,251,137,225,27,150,41,89,174,152,62,31,203,105,60,33,3,141,76,62,96,1,133,154,119,160,223,111,88,89,66,21,132,159,142,112,201,193,125,104,164,134,42,161,212,151,6,97,230,66,254,141,200,69>>>>,
      <<<<"c", "h", "r", "c", "h", "r", "7", ":", "1", ":", "A", ":", "A", ":", "A">>,
        <<145,107,4,232,204,180,207,197,94,114,15,29,109,105,81,77,123,231,106,139,224,182,218,45,15,39,124,75,221,16,255,30,19,59,196,254,121,99,114,157,183,127,137,110,52,246,144,131,30,255,172,189,78,9,211,52,39,187,128,210,58,68,202,202>>>>,
      <<<<"c", "h", "r", "c", "h", "r", "7", ":", "1", ":", "A", ":", "A", ":", "A", ":", "A">>,
        <<170,166,5,104,58,209,154,254,213,206,231,187,146,121,183,181,241,224,64,243,186,69,196,38,199,121,108,1,18,221,220,28,187,141,162,1,152,36,190,242,7,185,121,42,77,46,184,164,158,225,51,55,52,56,40,88,13,251,129,113,78,140,32,143>>>>,
      <<<<"c", "h", "r", "c", "h", "r", "7", ":", "2", ":", "A", ":", "A">>,
        <<212,209,209,235,228,213,151,216,138,141,184,71,92,80,124,167,144,168,137,31,227,133,64,88,29,182,45,160,44,207,229,6,112,0,165,98,151,210,84,84,159,160,139,53,133,28,234,103,203,91,185,122,236,149,167,126,155,145,55,164,248,241,53,1>>>>,
      <<<<"c", "h", "r", "c", "h", "r", "7", ":", "2", ":", "A", ":", "A", ":", "A">>,
        <<185,29,147,118,118,199,119,211,152,155,230,85,1,198,28,60,105,10,171,127,161,228,168,202,239,194,22,120,151,62,182,165,146,179,177,26,96,85,214,121,33,101,9,111,204,165,243,113,36,157,203,110,133,147,59,90,25,159,101,201,156,52,21,220>>>>,
      <<<<"c", "h", "r", "c", "h", "r", "7", ":", "2", ":", "A", ":", "A", ":", "A", ":", "A">>,
        <<195,179,206,218,69,115,136,74,185,223,226,122,150,107,145,244,172,132,108,68,111,233,197,121,240,226,214,161,129,7,183,153,157,221,8,183,152,229,61,102,74,109,41,179,1,30,197,124,74,153,60,68,129,166,86,240,143,8,189,150,118,2,164,59>>>>,
      <<<<"c", "h", "r", "c", "h", "r", "7", ":", "0", "0", ":", "A", ":", "A">>,
        <<86,80,89,227,228,82,201,156,246,200,238,98,147,244,186,170,17,93,214,165,187,72,56,158,16,175,39,199,172,70,25,156,200,62,158,223,49,55,254,193,215,75,223,185,138,87,168,79,210,87,55,104,65,32,9,82,69,234,102,148,138,202,171,98>>>>,
      <<<<"c", "h", "r", "c", "h", "r", "7", ":", "0", "0", ":", "A", ":", "A", ":", "A">>,
        <<97,174,29,17,121,226,245,155,236,119,34,131,3,19,234,88,171,57,25,24,253,240,16,121,94,100,32,196,88,218,62,24,118,12,201,201,112,93,229,36,232,178,119,119,165,165,31,31,165,162,217,196,24,195,128,156,125,86,218,38,116,153,123,179>>>>,
      <<<<"c", "h", "r", "c", "h", "r", "7", ":", "0", "0", ":", "A", ":", "A", ":", "A", ":", "A">>,
        <<205,143,152,217,139,82,126,147,243,184,181,32,174,74,202,225,107,143,10,151,24,50,48,51,5,207,180,164,167,200,204,192,190,130,140,215,124,93,26,38,39,38,84,170,183,126,224,124,190,251,233,18,251,10,234,44,116,102,228,107,238,4,190,101>>>>,
      <<<<"c", "h", "r", "c", "h", "r", "7", ":", "0", "1", ":", "A", ":", "A">>,
        <<157,125,208,117,154,158,103,120,135,234,102,204,142,241,175,52,242,213,125,217,187,95,20,0,166,30,131,237,157,164,222,80,224,231,91,131,145,247,32,170,94,255,173,7,126,30,145,1,170,34,177,104,168,29,37,136,26,145,100,24,224,245,69,220>>>>,
      <<<<"c", "h", "r", "c", "h", "r", "7", ":", "0", "1", ":", "A", ":", "A", ":", "A">>,
        <<93,235,110,29,67,76,67,21,244,26,221,101,200,251,70,181,130,250,98,145,143,157,63,5,55,55,114,28,30,140,194,79,76,41,126,12,154,50,242,163,207,68,64,103,252,179,232,4,20,222,74,15,134,112,170,65,102,223,119,202,28,194,146,48>>>>,
      <<<<"c", "h", "r", "c", "h", "r", "7", ":", "0", "1", ":", "A", ":", "A", ":", "A", ":", "A">>,
        <<10,130,183,221,108,152,3,253,148,11,13,165,196,236,153,31,6,134,84,125,61,33,207,222,251,239,213,222,13,57,235,16,173,39,116,216,36,210,174,241,218,13,178,180,210,20,87,4,89,74,198,60,21,211,138,140,132,28,111,239,53,1,7,224>>>>,
      <<<<"c", "h", "r", "c", "h", "r", "7", ":", "0", "2", ":", "A", ":", "A">>,
        <<36,177,55,9,185,14,144,98,56,114,53,129,143,175,124,126,52,162,233,129,68,2,73,7,234,67,113,120,19,124,201,173,34,31,216,38,237,229,115,9,125,105,78,66,26,52,118,161,247,21,88,211,239,184,31,61,134,225,1,174,115,184,165,160>>>>,
      <<<<"c", "h", "r", "c", "h", "r", "7", ":", "0", "2", ":", "A", ":", "A", ":", "A">>,
        <<245,63,92,131,70,246,49,66,181,112,18,40,140,248,99,71,23,20,168,90,188,162,193,148,74,183,27,161,215,202,65,13,250,194,136,84,152,168,103,128,76,199,177,230,177,236,211,23,113,151,184,221,234,150,1,137,234,89,51,247,184,43,62,59>>>>,
      <<<<"c", "h", "r", "c", "h", "r", "7", ":", "0", "2", ":", "A", ":", "A", ":", "A", ":", "A">>,
        <<31,106,122,152,124,150,102,237,130,126,87,230,211,12,171,57,141,230,68,135,24,5,222,36,162,208,146,151,229,247,242,97,27,44,135,138,98,225,122,64,108,162,79,227,73,45,252,146,62,148,46,204,96,159,212,213,126,31,199,5,96,223,16,210>>>>,
      <<<<"7", ":", "1", ":", "0", ":", "A", ":", "A">>,
        <<84,114,236,177,245,62,186,72,7,65,26,92,219,164,244,146,83,76,60,126,209,209,136,86,201,47,51,140,214,144,28,68,121,142,192,97,156,41,190,58,251,231,163,145,69,101,66,14,11,113,139,4,206,110,164,18,136,114,97,59,212,114,239,98>>>>,
      <<<<"7", ":", "1", ":", "0", ":", "A", ":", "A", ":", "A">>,
        <<132,211,1,35,241,94,153,139,81,11,65,167,143,111,186,176,3,132,232,196,109,78,78,95,195,241,84,152,87,53,23,117,84,214,227,75,23,41,182,199,220,114,212,97,182,35,72,179,111,12,141,226,214,134,3,180,153,216,16,84,208,134,112,193>>>>,
      <<<<"7", ":", "1", ":", "0", ":", "A", ":", "A", ":", "A", ":", "A">>,
        <<95,237,120,28,171,202,104,103,232,98,123,29,73,217,157,156,97,208,25,74,98,193,40,40,40,64,231,139,80,110,130,102,137,83,238,102,177,240,118,85,226,148,194,178,28,21,25,186,88,119,246,171,46,110,246,218,184,169,180,175,13,53,72,241>>>>,
      <<<<"7", ":", "1", ":", "1", ":", "A", ":", "A">>,
        <<80,101,36,40,151,87,126,250,61,136,247,90,135,231,177,35,120,47,33,99,12,41,17,80,176,92,131,109,198,166,236,150,217,203,85,15,116,238,203,147,118,61,42,210,22,250,31,205,252,41,222,231,141,86,23,106,45,23,180,26,66,46,226,148>>>>,
      <<<<"7", ":", "1", ":", "1", ":", "A", ":", "A", ":", "A">>,
        <<46,204,221,190,118,230,132,158,94,104,165,20,150,223,43,159,41,100,44,171,174,132,237,154,140,199,205,146,30,48,219,0,57,204,88,71,174,103,91,194,95,3,212,114,53,8,75,147,119,125,95,229,153,5,172,3,2,13,163,140,137,115,41,2>>>>,
      <<<<"7", ":", "1", ":", "1", ":", "A", ":", "A", ":", "A", ":", "A">>,
        <<255,225,200,42,13,200,195,17,230,152,238,26,109,51,63,227,123,23,249,43,87,105,86,167,252,176,2,253,52,206,129,231,60,67,102,62,211,227,250,39,107,48,180,197,206,15,182,137,133,166,174,253,213,113,241,215,176,222,134,27,123,111,160,74>>>>,
      <<<<"7", ":", "1", ":", "2", ":", "A", ":", "A">>,
        <<74,81,212,137,204,149,0,238,6,237,18,65,156,223,23,197,246,240,44,209,208,141,215,105,172,215,240,135,11,154,194,142,184,121,149,33,13,160,44,77,170,49,120,2,199,252,114,144,93,95,20,40,39,145,153,232,108,145,52,153,255,197,63,117>>>>,
      <<<<"7", ":", "1", ":", "2", ":", "A", ":", "A", ":", "A">>,
        <<37,17,100,46,70,28,236,245,80,251,61,19,222,52,214,249,71,42,132,94,32,108,188,34,64,175,61,12,26,246,84,255,3,235,198,85,73,14,152,59,155,142,104,225,138,146,184,176,180,228,123,197,130,169,234,30,232,198,62,88,199,212,116,182>>>>,
      <<<<"7", ":", "1", ":", "2", ":", "A", ":", "A", ":", "A", ":", "A">>,
        <<133,144,63,140,169,38,239,147,39,13,204,33,121,160,133,231,80,105,47,111,224,80,111,142,56,108,105,9,47,250,97,117,108,151,2,201,3,91,9,46,217,116,219,162,254,12,113,218,64,47,8,244,150,227,51,163,233,8,85,203,2,116,80,158>>>>,
      <<<<"7", ":", "1", ":", "0", "0", ":", "A", ":", "A">>,
        <<223,202,131,69,192,62,118,101,135,129,164,136,143,90,129,149,223,203,244,33,83,84,233,213,24,155,229,173,140,125,80,23,255,33,9,22,73,221,138,47,36,192,210,218,117,233,236,199,203,103,33,102,203,223,124,24,205,149,22,4,143,233,47,251>>>>,
      <<<<"7", ":", "1", ":", "0", "0", ":", "A", ":", "A", ":", "A">>,
        <<139,57,52,13,107,68,0,131,80,136,226,74,35,19,202,171,168,77,87,203,147,139,186,104,177,158,70,131,128,19,182,63,72,82,152,197,54,142,172,152,223,137,30,154,193,118,200,28,249,227,152,230,184,156,98,33,138,133,42,231,37,88,124,119>>>>,
      <<<<"7", ":", "1", ":", "0", "0", ":", "A", ":", "A", ":", "A", ":", "A">>,
        <<34,105,19,123,68,239,46,182,175,101,234,10,31,149,110,178,96,41,52,159,214,121,245,80,98,116,162,222,91,108,71,214,111,171,210,59,39,221,34,99,171,190,1,147,162,44,214,31,244,79,2,89,213,253,158,246,246,31,30,153,23,114,234,11>>>>,
      <<<<"7", ":", "1", ":", "0", "1", ":", "A", ":", "A">>,
        <<98,12,185,182,172,78,145,204,214,106,189,152,164,99,33,12,87,222,159,76,254,229,223,152,178,183,220,242,26,72,45,188,252,154,55,190,78,172,90,125,166,146,220,234,37,111,34,52,194,185,7,205,208,23,56,142,231,89,64,129,158,239,226,167>>>>,
      <<<<"7", ":", "1", ":", "0", "1", ":", "A", ":", "A", ":", "A">>,
        <<233,113,20,246,251,215,98,128,149,97,83,228,228,29,245,199,232,93,181,181,174,23,9,176,91,149,44,119,34,132,175,169,192,178,252,127,209,31,153,86,198,253,252,174,236,208,90,149,203,109,222,88,19,71,143,74,244,187,30,218,187,52,50,97>>>>,
      <<<<"7", ":", "1", ":", "0", "1", ":", "A", ":", "A", ":", "A", ":", "A">>,
        <<172,212,195,249,82,29,183,180,8,202,11,27,105,53,189,104,60,129,37,29,56,1,177,56,70,155,206,93,217,244,252,226,165,232,5,139,253,221,73,72,143,196,113,57,34,216,237,105,145,1,213,17,36,163,232,60,103,51,78,100,7,167,84,167>>>>,
      <<<<"7", ":", "1", ":", "0", "2", ":", "A", ":", "A">>,
        <<225,106,101,128,232,111,154,233,131,171,102,116,251,97,113,59,52,19,65,174,79,124,230,245,25,205,33,1,143,103,226,85,41,61,150,36,216,141,45,172,48,207,196,45,167,6,117,52,89,51,118,245,247,191,137,204,133,49,1,231,173,25,172,246>>>>,
      <<<<"7", ":", "1", ":", "0", "2", ":", "A", ":", "A", ":", "A">>,
        <<93,203,131,229,146,18,230,199,219,160,226,101,185,58,223,5,177,94,181,198,78,227,52,12,214,181,211,53,7,80,216,93,46,151,173,154,95,60,205,103,204,32,91,102,114,190,225,65,109,210,64,251,204,217,232,254,77,165,42,20,246,16,68,139>>>>,
      <<<<"7", ":", "1", ":", "0", "2", ":", "A", ":", "A", ":", "A", ":", "A">>,
        <<44,159,161,122,98,210,149,131,162,231,83,6,35,188,224,197,169,132,194,233,53,77,70,145,39,221,75,121,148,221,78,180,202,70,198,200,161,118,111,141,244,17,130,189,215,150,45,54,85,136,228,191,175,145,6,29,76,24,35,166,188,169,55,128>>>>,
      <<<<"7", "\n", ":", "0", ":", "A", ":", "A">>,
        <<227,116,43,86,166,229,72,55,248,176,147,72,55,89,85,225,138,78,193,186,183,50,202,223,8,1,43,214,102,41,90,37,20,121,32,1,218,88,229,87,159,212,40,17,145,188,224,39,199,61,246,162,243,221,167,134,201,84,55,193,30,104,40,166>>>>,
      <<<<"7", "\n", ":", "0", ":", "A", ":", "A", ":", "A">>,
        <<176,99,136,119,86,215,100,141,167,18,118,0,165,199,81,109,155,28,249,157,40,61,197,195,122,182,69,249,112,3,20,66,101,132,132,76,184,184,191,145,87,131,127,84,244,147,18,200,252,28,110,157,195,191,221,166,183,39,112,160,133,29,189,222>>>>,
      <<<<"7", "\n", ":", "0", ":", "A", ":", "A", ":", "A", ":", "A">>,
        <<70,190,6,41,99,36,208,158,2,79,104,218,208,51,195,70,102,167,164,73,67,59,251,108,86,77,49,101,56,254,50,83,68,244,241,195,43,125,171,180,166,143,43,10,247,124,69,147,12,136,50,52,3,74,50,1,96,22,191,219,190,245,250,67>>>>,
      <<<<"7", "\n", ":", "1", ":", "A", ":", "A">>,
        <<57,213,44,186,9,170,173,37,252,144,178,216,89,188,36,189,29,188,22,245,78,248,125,160,29,146,200,115,121,90,129,63,172,21,75,120,73,236,126,84,250,250,37,89,15,248,52,132,96,220,140,33,82,166,58,94,107,17,151,11,19,41,43,61>>>>,
      <<<<"7", "\n", ":", "1", ":", "A", ":", "A", ":", "A">>,
        <<154,241,203,67,119,232,194,237,122,145,87,134,247,18,64,49,107,18,125,235,81,32,23,35,200,83,88,2,137,114,167,19,21,138,101,226,78,53,34,130,149,141,165,146,132,115,174,36,138,205,101,75,202,41,152,132,217,231,161,153,128,191,168,138>>>>,
      <<<<"7", "\n", ":", "1", ":", "A", ":", "A", ":", "A", ":", "A">>,
        <<212,2,7,70,119,63,165,114,189,186,26,129,241,235,193,61,59,236,226,54,150,244,29,28,164,62,176,234,39,15,186,22,145,58,138,135,1,125,238,140,234,181,183,178,75,79,69,224,108,85,112,142,125,142,160,221,249,59,128,3,21,138,237,104>>>>,
      <<<<"7", "\n", ":", "2", ":", "A", ":", "A">>,
        <<215,163,140,80,36,37,137,172,142,53,165,72,145,143,247,134,123,72,162,136,22,234,116,0,205,94,129,64,247,65,86,178,244,150,21,127,249,32,181,98,100,44,213,129,126,199,25,127,223,249,238,144,119,36,18,217,54,244,236,249,65,195,76,240>>>>,
      <<<<"7", "\n", ":", "2", ":", "A", ":", "A", ":", "A">>,
        <<146,153,14,209,36,129,236,204,31,238,165,250,246,80,233,40,139,156,195,131,201,205,51,0,16,208,232,30,202,32,10,241,209,160,45,77,64,29,43,217,0,213,2,183,11,168,245,86,15,239,49,139,182,44,138,210,253,226,247,137,170,224,189,75>>>>,
      <<<<"7", "\n", ":", "2", ":", "A", ":", "A", ":", "A", ":", "A">>,
        <<220,115,133,239,237,202,119,34,52,90,6,252,245,148,57,166,51,128,188,95,24,35,35,27,254,185,191,214,111,40,24,242,115,248,165,109,19,211,236,28,69,145,254,200,182,82,155,91,84,180,74,184,178,252,157,205,236,46,237,205,129,237,182,222>>>>,
      <<<<"7", "\n", ":", "0", "0", ":", "A", ":", "A">>,
        <<121,112,6,12,161,187,122,160,55,222,49,106,115,37,234,169,44,62,254,89,40,227,38,83,227,99,201,194,187,219,31,247,18,218,115,246,56,50,33,97,214,154,156,122,9,80,130,196,62,49,116,72,186,149,146,142,63,31,14,214,118,22,183,221>>>>,
      <<<<"7", "\n", ":", "0", "0", ":", "A", ":", "A", ":", "A">>,
        <<3,239,249,18,203,224,14,24,202,124,171,137,209,136,115,204,222,242,211,177,226,244,137,235,187,123,210,197,84,228,8,211,224,250,221,63,160,0,124,55,128,18,34,208,21,114,43,129,25,109,230,14,97,67,92,25,112,220,78,34,104,187,151,75>>>>,
      <<<<"7", "\n", ":", "0", "0", ":", "A", ":", "A", ":", "A", ":", "A">>,
        <<85,136,150,166,84,233,116,1,193,35,197,124,129,249,105,253,18,87,149,159,200,245,94,115,100,108,131,40,67,253,141,234,195,100,241,183,144,161,201,179,90,108,134,169,61,84,86,104,83,127,162,157,6,118,87,180,79,132,26,72,77,20,98,27>>>>,
      <<<<"7", "\n", ":", "0", "1", ":", "A", ":", "A">>,
        <<181,87,65,118,4,227,218,86,226,245,75,162,69,230,52,157,66,81,62,119,42,190,219,172,120,64,156,133,120,69,16,167,125,191,228,38,139,252,47,92,143,5,112,128,148,171,6,129,133,19,87,67,255,61,150,156,192,82,112,135,83,250,140,33>>>>,
      <<<<"7", "\n", ":", "0", "1", ":", "A", ":", "A", ":", "A">>,
        <<187,234,110,86,78,7,92,20,66,8,216,97,39,78,106,14,7,82,23,35,17,166,167,67,154,25,53,132,218,29,251,74,170,1,202,190,107,218,30,72,113,168,162,86,132,166,126,234,157,174,30,152,209,203,186,119,248,84,127,209,252,201,171,93>>>>,
      <<<<"7", "\n", ":", "0", "1", ":", "A", ":", "A", ":", "A", ":", "A">>,
        <<167,27,255,188,232,24,123,119,101,93,175,206,54,197,109,54,229,213,37,19,248,17,252,174,8,139,169,102,61,216,165,59,239,78,208,104,203,71,10,133,150,158,41,210,58,207,66,159,253,209,153,254,167,3,146,88,49,133,117,235,72,236,179,70>>>>,
      <<<<"7", "\n", ":", "0", "2", ":", "A", ":", "A">>,
        <<82,105,54,167,148,159,232,171,9,169,48,4,101,71,64,51,10,173,238,38,39,75,215,125,195,30,165,147,251,244,69,228,110,113,106,134,165,136,24,119,188,227,186,88,63,60,42,7,227,187,192,38,67,231,175,23,128,85,16,15,14,67,224,208>>>>,
      <<<<"7", "\n", ":", "0", "2", ":", "A", ":", "A", ":", "A">>,
        <<61,36,226,229,103,186,81,1,191,254,83,225,227,155,48,243,73,127,249,80,26,220,90,38,7,58,117,2,92,163,105,163,59,98,90,128,125,110,9,82,223,120,117,255,146,179,12,98,67,108,150,181,29,11,223,40,138,171,109,172,68,234,187,160>>>>,
      <<<<"7", "\n", ":", "0", "2", ":", "A", ":", "A", ":", "A", ":", "A">>,
        <<60,61,27,60,255,178,219,177,248,182,108,247,112,13,95,34,231,76,78,121,81,202,33,242,249,159,167,230,103,194,159,146,81,192,30,20,240,147,168,89,202,37,142,178,44,124,175,195,218,251,193,103,211,116,29,192,184,52,208,127,215,71,229,203>>>>,
      <<<<"7", ":", "5", "5", "1", "7", "4", "7", "7", "2", ":", "G", "G", "A", "A", "T", "T", "A", "A", "G", "A", "G", "A", "A", "G", "C", ":">>,
        <<191,212,208,94,243,78,65,225,181,188,212,85,36,37,165,15,246,181,181,23,255,155,96,15,25,116,21,52,227,104,154,45,154,167,6,185,232,197,131,51,67,213,216,114,123,218,30,213,89,17,14,98,110,164,209,134,198,207,195,181,48,65,54,201>>>>
    }

\* hash.slice(0, 24): the number of hash bytes kept
TruncatedBytes == 24

\* crypto's SHA-512 as the table gives it; a payload outside the table (the
\* model never hashes one, see PayloadsCovered) has no known digest.
sha512(data) ==
    IF \E e \in SHA512Table : e[1] = data
    THEN (CHOOSE e \in SHA512Table : e[1] = data)[2]
    ELSE <<>>

(***************************************************************************)
(* Results of a call: a returned value or a thrown Error                   *)
(***************************************************************************)
Return(v) == [threw |-> FALSE, val |-> v]

Throw(msg) == [threw |-> TRUE, val |-> msg]

(***************************************************************************)
(* normalizeChromosome                                                     *)
(***************************************************************************)
\* Variant of normalizeChromosome: the prefix is matched in any letter case.
normalizeChromosome_anycase(chrom) ==
    LET stripped == IF Len(chrom) >= 3
                       /\ toLowerCase(SubSeq(chrom, 1, 3)) = <<"c", "h", "r">>
                    THEN substring(chrom, 3)
                    ELSE chrom
    IN  IF stripped = <<"M">> THEN <<"M", "T">>
        ELSE IF stripped = <<"M", "T">> THEN <<"M", "T">>
        ELSE IF stripped = <<"U", "n">> THEN <<"U", "N">>
        ELSE stripped

\* Variant of normalizeChromosome: the special cases are tested before the
\* prefix is removed.
normalizeChromosome_early(chrom) ==
    IF chrom = <<"M">> THEN <<"M", "T">>
    ELSE IF chrom = <<"M", "T">> THEN <<"M", "T">>
    ELSE IF chrom = <<"U", "n">> THEN <<"U", "N">>
    ELSE IF startsWith(chrom, <<"c", "h", "r">>) THEN substring(chrom, 3)
    ELSE chrom

normalizeChromosome(chrom) ==
    LET stripped == IF startsWith(chrom, <<"c", "h", "r">>)
                    THEN substring(chrom, 3)
                    ELSE chrom
    IN  IF stripped = <<"M">> THEN <<"M", "T">>
        ELSE IF stripped = <<"M", "T">> THEN <<"M", "T">>
        ELSE IF stripped = <<"U", "n">> THEN <<"U", "N">>
        ELSE stripped

(***************************************************************************)
(* generateVrsId                                                           *)
(***************************************************************************)
IdPrefix == <<"g", "a", "4", "g", "h", ":", "V", "A", ":">>

SpecialPrefix == IdPrefix \o <<"S", "P", "E", "C", "I", "A", "L", ":">>

\* b64Digest of lines 57-60: base64, then '+' -> '-', '/' -> '_', padding removed
urlSafeDigest(truncated) ==
    StripPadding(ReplaceEvery(ReplaceEvery(toBase64(truncated), "+", "-"), "/", "_"))

\* data of line 50
payload(normalizedChrom, pos, ref, alt) ==
    normalizedChrom \o <<":">> \o Interpolate(pos) \o <<":">> \o ref \o <<":">> \o alt

\* Variant of specialLabel: the reference allele is written twice, the
\* alternate allele not at all.
specialLabel_refTwice(normalizedChrom, pos, ref, alt) ==
    normalizedChrom \o <<"-">> \o Interpolate(pos) \o <<"-">> \o ref \o <<"-">> \o ref

\* the label of line 46
specialLabel(normalizedChrom, pos, ref, alt) ==
    normalizedChrom \o <<"-">> \o Interpolate(pos) \o <<"-">> \o ref \o <<"-">> \o alt

\* Variant of generateVrsId: only the alternate allele is tested for '*'.
generateVrsId_altOnly(chrom, pos, ref, alt) ==
    LET normalizedChrom == normalizeChromosome(chrom)
        data == payload(normalizedChrom, pos, ref, alt)
        hash == sha512(data)
        truncated == slice(hash, TruncatedBytes)
    IN  IF alt = <<"*">>
        THEN Return(SpecialPrefix \o specialLabel(normalizedChrom, pos, ref, alt))
        ELSE Return(IdPrefix \o normalizedChrom \o <<":">> \o urlSafeDigest(truncated))

\* Variant of generateVrsId: the hashed data carries a count kept between
\* calls, here the number of callers that have called the library.
generateVrsId_counted(chrom, pos, ref, alt) ==
    LET normalizedChrom == normalizeChromosome(chrom)
        count == Cardinality({c \in DOMAIN op : op[c] # "none"})
        data == payload(normalizedChrom, pos, ref, alt)
                \o (IF count = 0 THEN <<>> ELSE <<":">> \o NumberToString(count))
        hash == sha512(data)
        truncated == slice(hash, TruncatedBytes)
    IN  IF alt = <<"*">> \/ ref = <<"*">>
        THEN Return(SpecialPrefix \o specialLabel(normalizedChrom, pos, ref, alt))
        ELSE Return(IdPrefix \o normalizedChrom \o <<":">> \o urlSafeDigest(truncated))

generateVrsId(chrom, pos, ref, alt) ==
    LET normalizedChrom == normalizeChromosome(chrom)
        data == payload(normalizedChrom, pos, ref, alt)
        hash == sha512(data)
        truncated == slice(hash, TruncatedBytes)
    IN  IF alt = <<"*">> \/ ref = <<"*">>
        THEN Return(SpecialPrefix \o specialLabel(normalizedChrom, pos, ref, alt))
        ELSE Return(IdPrefix \o normalizedChrom \o <<":">> \o urlSafeDigest(truncated))

(***************************************************************************)
(* isValidVrsId, parseVrsId, getChromosomeFromVrsId                        *)
(***************************************************************************)
\* The characters '.' does not match (U+2028 and U+2029 are outside the
\* model's alphabet).
LineTerminators == {"\n", "\r"}

\* Variant of matchPattern: /^ga4gh:VA:([^:]*):(.+)$/, the chromosome may
\* be empty.
matchPattern_star(s) ==
    LET colons == {i \in (Len(IdPrefix) + 1)..Len(s) : s[i] = ":"}
        k == IF colons = {} THEN 0 ELSE CHOOSE i \in colons : \A j \in colons : i <= j
        g1 == IF k = 0 THEN <<>> ELSE SubSeq(s, Len(IdPrefix) + 1, k - 1)
        g2 == IF k = 0 THEN <<>> ELSE SubSeq(s, k + 1, Len(s))
    IN  IF /\ startsWith(s, IdPrefix)
           /\ k # 0
           /\ Len(g2) >= 1
           /\ \A i \in 1..Len(g2) : g2[i] \notin LineTerminators
        THEN [matched |-> TRUE, g1 |-> g1, g2 |-> g2]
        ELSE [matched |-> FALSE, g1 |-> <<>>, g2 |-> <<>>]

\* Variant of matchPattern: /^ga4gh:VA:([^:]+):([A-Za-z0-9_-]+)$/, the digest
\* is made of URL-safe base64 characters only.
matchPattern_base64url(s) ==
    LET colons == {i \in (Len(IdPrefix) + 1)..Len(s) : s[i] = ":"}
        k == IF colons = {} THEN 0 ELSE CHOOSE i \in colons : \A j \in colons : i <= j
        g1 == IF k = 0 THEN <<>> ELSE SubSeq(s, Len(IdPrefix) + 1, k - 1)
        g2 == IF k = 0 THEN <<>> ELSE SubSeq(s, k + 1, Len(s))
        safe == {Base64Alphabet[i] : i \in 1..62} \cup {"-", "_"}
    IN  IF /\ startsWith(s, IdPrefix)
           /\ k # 0
           /\ Len(g1) >= 1
           /\ Len(g2) >= 1
           /\ \A i \in 1..Len(g2) : g2[i] \in safe
        THEN [matched |-> TRUE, g1 |-> g1, g2 |-> g2]
        ELSE [matched |-> FALSE, g1 |-> <<>>, g2 |-> <<>>]

\* Variant of matchPattern: /^ga4gh:..:([^:]+):(.+)$/, any two characters
\* may stand where "VA" does.
matchPattern_anytag(s) ==
    LET colons == {i \in (Len(IdPrefix) + 1)..Len(s) : s[i] = ":"}
        k == IF colons = {} THEN 0 ELSE CHOOSE i \in colons : \A j \in colons : i <= j
        g1 == IF k = 0 THEN <<>> ELSE SubSeq(s, Len(IdPrefix) + 1, k - 1)
        g2 == IF k = 0 THEN <<>> ELSE SubSeq(s, k + 1, Len(s))
    IN  IF /\ Len(s) >= Len(IdPrefix)
           /\ SubSeq(s, 1, 6) = SubSeq(IdPrefix, 1, 6)
           /\ s[7] \notin LineTerminators /\ s[8] \notin LineTerminators
           /\ s[9] = ":"
           /\ k # 0
           /\ Len(g1) >= 1
           /\ Len(g2) >= 1
           /\ \A i \in 1..Len(g2) : g2[i] \notin LineTerminators
        THEN [matched |-> TRUE, g1 |-> g1, g2 |-> g2]
        ELSE [matched |-> FALSE, g1 |-> <<>>, g2 |-> <<>>]

\* Variant of matchPattern: the identifier is split at every ':' and the
\* digest is the fourth part, the text up to the next ':'.
matchPattern_split(s) ==
    LET colons == {i \in (Len(IdPrefix) + 1)..Len(s) : s[i] = ":"}
        k == IF colons = {} THEN 0 ELSE CHOOSE i \in colons : \A j \in colons : i <= j
        later == {i \in colons : i > k}
        n == IF later = {} THEN Len(s) + 1
             ELSE CHOOSE i \in later : \A j \in later : i <= j
        g1 == IF k = 0 THEN <<>> ELSE SubSeq(s, Len(IdPrefix) + 1, k - 1)
        g2 == IF k = 0 THEN <<>> ELSE SubSeq(s, k + 1, n - 1)
    IN  IF /\ startsWith(s, IdPrefix)
           /\ k # 0
           /\ Len(g1) >= 1
           /\ Len(g2) >= 1
           /\ \A i \in (k + 1)..Len(s) : s[i] \notin LineTerminators
        THEN [matched |-> TRUE, g1 |-> g1, g2 |-> g2]
        ELSE [matched |-> FALSE, g1 |-> <<>>, g2 |-> <<>>]

\* Variant of matchPattern: /^ga4gh:VA:(.+):(.+)$/, the greedy chromosome
\* group runs to the last ':' that leaves a remainder.
matchPattern_greedy(s) ==
    LET colons == {i \in (Len(IdPrefix) + 1)..(Len(s) - 1) : s[i] = ":"}
        k == IF colons = {} THEN 0 ELSE CHOOSE i \in colons : \A j \in colons : i >= j
        g1 == IF k = 0 THEN <<>> ELSE SubSeq(s, Len(IdPrefix) + 1, k - 1)
        g2 == IF k = 0 THEN <<>> ELSE SubSeq(s, k + 1, Len(s))
    IN  IF /\ startsWith(s, IdPrefix)
           /\ k # 0
           /\ Len(g1) >= 1
           /\ \A i \in 1..Len(g1) : g1[i] \notin LineTerminators
           /\ \A i \in 1..Len(g2) : g2[i] \notin LineTerminators
        THEN [matched |-> TRUE, g1 |-> g1, g2 |-> g2]
        ELSE [matched |-> FALSE, g1 |-> <<>>, g2 |-> <<>>]

\* /^ga4gh:VA:([^:]+):(.+)$/ applied to s.  After the literal prefix, [^:]+
\* takes the characters up to the first ':' and needs at least one; a shorter
\* run would be followed by a character that is not ':', so backtracking finds
\* no other match.  (.+)$ needs the remainder to be non-empty and free of line
\* terminators, the pattern having neither the s nor the m flag.
matchPattern(s) ==
    LET colons == {i \in (Len(IdPrefix) + 1)..Len(s) : s[i] = ":"}
        k == IF colons = {} THEN 0 ELSE CHOOSE i \in colons : \A j \in colons : i <= j
        g1 == IF k = 0 THEN <<>> ELSE SubSeq(s, Len(IdPrefix) + 1, k - 1)
        g2 == IF k = 0 THEN <<>> ELSE SubSeq(s, k + 1, Len(s))
    IN  IF /\ startsWith(s, IdPrefix)
           /\ k # 0
           /\ Len(g1) >= 1
           /\ Len(g2) >= 1
           /\ \A i \in 1..Len(g2) : g2[i] \notin LineTerminators
        THEN [matched |-> TRUE, g1 |-> g1, g2 |-> g2]
        ELSE [matched |-> FALSE, g1 |-> <<>>, g2 |-> <<>>]

isValidVrsId(vrsId) ==
    IF Falsy(vrsId) THEN FALSE ELSE matchPattern(vrsId.s).matched

parseVrsId(vrsId) ==
    IF ~isValidVrsId(vrsId) THEN Throw("Invalid VRS ID")
    ELSE LET match == matchPattern(vrsId.s)
         IN  IF ~match.matched THEN Throw("Failed to parse VRS ID")
             ELSE Return([chromosome |-> match.g1,
                          digest |-> match.g2,
                          type |-> <<"V", "A">>])

getChromosomeFromVrsId(vrsId) ==
    LET components == parseVrsId(vrsId)
    IN  IF components.threw THEN components
        ELSE Return(components.val.chromosome)

(***************************************************************************)
(* getSqlTableForVariant, buildVariantQuery                                *)
(***************************************************************************)
TablePrefix == <<"v", "a", "r", "i", "a", "n", "t", "s", "_", "c", "h", "r">>

\* Variant of getSqlTableForVariant: the chromosome is cut out of the text
\* between the second and the third ':' without parsing the identifier.
getSqlTableForVariant_unchecked(vrsId) ==
    LET s == vrsId.s
        colons == {i \in 1..Len(s) : s[i] = ":"}
        nth(n) == IF Cardinality(colons) < n THEN Len(s) + 1
                  ELSE CHOOSE i \in colons : Cardinality({j \in colons : j < i}) = n - 1
    IN  Return(TablePrefix \o toLowerCase(SubSeq(s, nth(2) + 1, nth(3) - 1)))

\* Variant of getSqlTableForVariant: the chromosome keeps its letter case.
getSqlTableForVariant_cased(vrsId) ==
    LET chromosome == getChromosomeFromVrsId(vrsId)
    IN  IF chromosome.threw THEN chromosome
        ELSE Return(TablePrefix \o chromosome.val)

getSqlTableForVariant(vrsId) ==
    LET chromosome == getChromosomeFromVrsId(vrsId)
    IN  IF chromosome.threw THEN chromosome
        ELSE Return(TablePrefix \o toLowerCase(chromosome.val))

\* The template literal of lines 151-156 before and after ${tableName}.
QueryHead ==
    <<"\n", " ", " ", " ", " ", "S", "E", "L", "E", "C", "T", " ", "*",
      "\n", " ", " ", " ", " ", "F", "R", "O", "M", " ", "p", "u", "b",
      "l", "i", "c", ".">>

QueryTail ==
    <<"\n", " ", " ", " ", " ", "W", "H", "E", "R", "E", " ", "i", "d",
      " ", "=", " ", "@", "v", "r", "s", "I", "d", "\n", " ", " ", " ",
      " ", "A", "N", "D", " ", "c", "h", "r", "o", "m", "o", "s", "o", "m",
      "e", " ", "=", " ", "@", "c", "h", "r", "o", "m", "o", "s", "o", "m",
      "e", "\n", " ", " ">>

\* Variant of buildVariantQuery: the identifier is written into the query
\* text in place of the placeholder @vrsId.
buildVariantQuery_inlined(vrsId) ==
    LET tableName == getSqlTableForVariant(vrsId)
        chromosome == getChromosomeFromVrsId(vrsId)
    IN  IF tableName.threw THEN tableName
        ELSE IF chromosome.threw THEN chromosome
        ELSE Return([query |-> QueryHead \o tableName.val
                               \o SubSeq(QueryTail, 1, 16) \o vrsId.s
                               \o SubSeq(QueryTail, 23, Len(QueryTail)),
                     params |-> [vrsId |-> vrsId.s,
                                 chromosome |-> chromosome.val]])

buildVariantQuery(vrsId) ==
    LET tableName == getSqlTableForVariant(vrsId)
        chromosome == getChromosomeFromVrsId(vrsId)
    IN  IF tableName.threw THEN tableName
        ELSE IF chromosome.threw THEN chromosome
        ELSE Return([query |-> QueryHead \o tableName.val \o QueryTail,
                     params |-> [vrsId |-> vrsId.s,
                                 chromosome |-> chromosome.val]])

(***************************************************************************)
(* The database example: MockDatabase, processVariants and                 *)
(* queryVariantByVrsId.  The tables are a function from the names of the   *)
(* tables created so far to their records in insertion order; the          *)
(* created_at time stamp of a record is left out.                          *)
(***************************************************************************)
\* private tables: Record<string, Record<string, any>[]> = {}
NoTables == [name \in {} |-> <<>>]

\* MockDatabase.ensureTable
ensureTable(tbls, tableName) ==
    [name \in DOMAIN tbls \cup {tableName} |->
        IF name \in DOMAIN tbls THEN tbls[name] ELSE <<>>]

\* MockDatabase.insert
insert(tbls, tableName, record) ==
    LET ensured == ensureTable(tbls, tableName)
    IN  [ensured EXCEPT ![tableName] = Append(ensured[tableName], record)]

\* MockDatabase.query with the condition of queryVariantByVrsId,
\* record => record.id === vrsId: the tables after the call and the records
\* found, in the order of the table
query(tbls, tableName, vrsId) ==
    LET ensured == ensureTable(tbls, tableName)
    IN  [tables |-> ensured,
         results |-> SelectSeq(ensured[tableName], LAMBDA record : record.id = vrsId)]

\* processVariants: the loop over the variants, from the tables tbls.  The
\* result has the tables as the call leaves them, the variants the loop has
\* worked on, and the Error that ended the loop, if any.
RECURSIVE processVariants(_, _, _)
processVariants(tbls, done, variants) ==
    IF variants = <<>>
    THEN [tables |-> tbls, processed |-> done, ret |-> Return(<<>>)]
    ELSE LET v == Head(variants)
             vrsId == generateVrsId(v.chrom, v.pos, v.ref, v.alt)
             tableName == IF vrsId.threw THEN vrsId
                          ELSE getSqlTableForVariant(Str(vrsId.val))
             chromosome == IF vrsId.threw THEN vrsId
                           ELSE getChromosomeFromVrsId(Str(vrsId.val))
         IN  IF vrsId.threw
             THEN [tables |-> tbls, processed |-> done \cup {v}, ret |-> vrsId]
             ELSE IF tableName.threw
             THEN [tables |-> tbls, processed |-> done \cup {v}, ret |-> tableName]
             ELSE IF chromosome.threw
             THEN [tables |-> tbls, processed |-> done \cup {v}, ret |-> chromosome]
             ELSE processVariants(
                      insert(tbls, tableName.val,
                             [id |-> vrsId.val,
                              chromosome |-> chromosome.val,
                              position |-> v.pos,
                              reference_allele |-> v.ref,
                              alternate_allele |-> v.alt]),
                      done \cup {v}, Tail(variants))

\* queryVariantByVrsId: the tables after the call and the value returned, the
\* first record found or null; an Error of the try block is caught.
queryVariantByVrsId(tbls, vrsId) ==
    LET components == parseVrsId(vrsId)
        tableName == getSqlTableForVariant(vrsId)
        found == query(tbls, tableName.val, vrsId.s)
    IN  IF components.threw \/ tableName.threw
        THEN [tables |-> tbls, ret |-> Return(Null)]
        ELSE IF Len(found.results) > 0
        THEN [tables |-> found.tables, ret |-> Return(found.results[1])]
        ELSE [tables |-> found.tables, ret |-> Return(Null)]

(***************************************************************************)
(* Inputs                                                                  *)
(***************************************************************************)
\* The largest position; positions are given as numbers and as texts.
MaxPos == 1

Chromosomes ==
    { <<"c", "h", "r", "7">>, <<"7">>,
      <<"c", "h", "r", "M">>, <<"M">>, <<"M", "T">>,
      <<"c", "h", "r", "U", "n">>, <<"U", "n">>,
      <<"c", "h", "r">>, <<>>,
      <<"C", "h", "r", "X">>, <<"C", "H", "R", "1">>,
      <<"c", "h", "r", "c", "h", "r", "7">>,
      <<"7", ":", "1">>, <<"7", "\n">> }

\* The smallest and the largest position, each as a number, as its decimal
\* text, and as that text with a leading zero.
Positions ==
    UNION { { Num(n), Str(NumberToString(n)), Str(<<"0">> \o NumberToString(n)) }
            : n \in {0, MaxPos} }

Alleles == { <<"A">>, <<"A", ":", "A">>, <<"*">> }

\* generateVrsId("chr7", 55174772, "GGAATTAAGAGAAGC", "") of the README
ReadmeVariant ==
    [chrom |-> <<"c", "h", "r", "7">>,
     pos |-> Num(55174772),
     ref |-> <<"G", "G", "A", "A", "T", "T", "A", "A", "G", "A", "G", "A", "A", "G", "C">>,
     alt |-> <<>>]

ReadmeDigest ==
    <<"v", "9", "T", "Q", "X", "v", "N", "O", "Q", "e", "G", "1", "v", "N", "R", "V",
      "J", "C", "W", "l", "D", "_", "a", "1", "t", "R", "f", "_", "m", "2", "A", "P">>

Variants ==
    [chrom : Chromosomes, pos : Positions, ref : Alleles, alt : Alleles]
    \cup {ReadmeVariant}

\* The caller holds no variant (its identifier came from elsewhere).
NoVariant == [chrom |-> <<>>, pos |-> Null, ref |-> <<>>, alt |-> <<>>]

\* Identifiers a caller may receive from outside, well-formed or not.
ExternalPrefixes ==
    { IdPrefix,
      <<"g", "a", "4", "g", "h", ":", "X", "X", ":">>,
      <<"g", "a", "4", "g", "h", ":", "V", "A">>,
      <<"x">> \o IdPrefix,
      <<"G", "A", "4", "G", "H", ":", "V", "A", ":">>,
      <<>> }

ExternalChromosomes ==
    { <<"7">>, <<"X">>, <<>>, <<"S", "P", "E", "C", "I", "A", "L">>, <<"7", "\n">> }

ExternalRests ==
    { <<>>, <<"d">>, <<"a", ":", "b">>, <<"a", "-", "b">>, <<":">>,
      <<"a", "\n", "b">>, <<"a", "\n">>, <<"\r">>, ReadmeDigest }

ExternalIds ==
    { Str(p \o c \o s \o r) :
        p \in ExternalPrefixes, c \in ExternalChromosomes,
        s \in {<<":">>, <<>>}, r \in ExternalRests }
    \cup { Null, Str(<<"i", "n", "v", "a", "l", "i", "d", "_", "i", "d">>) }

(***************************************************************************)
(* Callers.  Each caller keeps the variant it generated an identifier for  *)
(* (variant), and the last library call it made: the function (op), the    *)
(* argument (arg) and the result (ret).                                    *)
(***************************************************************************)
Callers == {"a", "b"}

IdFunctions ==
    {"isValidVrsId", "parseVrsId", "getChromosomeFromVrsId",
     "getSqlTableForVariant", "buildVariantQuery"}

\* The identifier the caller got from generateVrsId and still works on.
Held(c) ==
    IF op[c] = "generateVrsId" THEN {Str(ret[c].val)}
    ELSE IF op[c] \in IdFunctions /\ variant[c] # NoVariant THEN {arg[c]}
    ELSE {}

Record(c, v, f, a, r) ==
    /\ variant' = [variant EXCEPT ![c] = v]
    /\ op' = [op EXCEPT ![c] = f]
    /\ arg' = [arg EXCEPT ![c] = a]
    /\ ret' = [ret EXCEPT ![c] = r]
    /\ UNCHANGED <<truncatedHash, b64Digest, tables, processed>>

CallNormalizeChromosome(c, chrom) ==
    Record(c, NoVariant, "normalizeChromosome", chrom, Return(normalizeChromosome(chrom)))

CallGenerateVrsId(c, v) ==
    Record(c, v, "generateVrsId", v, generateVrsId(v.chrom, v.pos, v.ref, v.alt))

CallIsValidVrsId(c, id) ==
    Record(c, IF id \in Held(c) THEN variant[c] ELSE NoVariant,
           "isValidVrsId", id, Return(isValidVrsId(id)))

CallParseVrsId(c, id) ==
    Record(c, IF id \in Held(c) THEN variant[c] ELSE NoVariant,
           "parseVrsId", id, parseVrsId(id))

CallGetChromosomeFromVrsId(c, id) ==
    Record(c, IF id \in Held(c) THEN variant[c] ELSE NoVariant,
           "getChromosomeFromVrsId", id, getChromosomeFromVrsId(id))

CallGetSqlTableForVariant(c, id) ==
    Record(c, IF id \in Held(c) THEN variant[c] ELSE NoVariant,
           "getSqlTableForVariant", id, getSqlTableForVariant(id))

CallBuildVariantQuery(c, id) ==
    Record(c, IF id \in Held(c) THEN variant[c] ELSE NoVariant,
           "buildVariantQuery", id, buildVariantQuery(id))

NoCall == Return(<<>>)

InitCallers ==
    /\ variant = [c \in Callers |-> NoVariant]
    /\ op = [c \in Callers |-> "none"]
    /\ arg = [c \in Callers |-> <<>>]
    /\ ret = [c \in Callers |-> NoCall]

\* const db = new MockDatabase(), before processVariants has run
InitDatabase ==
    /\ tables = NoTables
    /\ processed = {}

(***************************************************************************)
(* Spec: one caller applies every function to every input.                 *)
(***************************************************************************)
Init ==
    /\ InitCallers
    /\ InitDatabase
    /\ truncatedHash = <<>>
    /\ b64Digest = Null

Normalize == \E chrom \in Chromosomes : CallNormalizeChromosome("a", chrom)

Generate == \E v \in Variants : CallGenerateVrsId("a", v)

Validate ==
    \/ \E id \in ExternalIds : CallIsValidVrsId("a", id)
    \/ \E id \in Held("a") : CallIsValidVrsId("a", id)

Parse ==
    \/ \E id \in ExternalIds : CallParseVrsId("a", id)
    \/ \E id \in Held("a") : CallParseVrsId("a", id)

GetChromosome ==
    \/ \E id \in ExternalIds : CallGetChromosomeFromVrsId("a", id)
    \/ \E id \in Held("a") : CallGetChromosomeFromVrsId("a", id)

GetSqlTable ==
    \/ \E id \in ExternalIds : CallGetSqlTableForVariant("a", id)
    \/ \E id \in Held("a") : CallGetSqlTableForVariant("a", id)

BuildQuery ==
    \/ \E id \in ExternalIds : CallBuildVariantQuery("a", id)
    \/ \E id \in Held("a") : CallBuildVariantQuery("a", id)

Next ==
    \/ Normalize
    \/ Generate
    \/ Validate
    \/ Parse
    \/ GetChromosome
    \/ GetSqlTable
    \/ BuildQuery

Spec == Init /\ [][Next]_vars

(***************************************************************************)
(* SpecEnc: the encoding step of generateVrsId on 24-byte values.  The     *)
(* value is eight groups of three bytes; the groups cover the sextets 62   *)
(* and 63 ('+' and '/') in every position, and the ends of each range of   *)
(* the alphabet.                                                           *)
(***************************************************************************)
ByteGroups ==
    { <<0, 0, 0>>, <<251, 239, 190>>, <<255, 255, 255>>, <<105, 183, 29>> }

GroupsPerHash == TruncatedBytes \div 3

RECURSIVE Flatten(_)
Flatten(groups) ==
    IF groups = <<>> THEN <<>> ELSE Head(groups) \o Flatten(Tail(groups))

InitEnc ==
    /\ InitCallers
    /\ InitDatabase
    /\ truncatedHash \in { Flatten(g) : g \in [1..GroupsPerHash -> ByteGroups] }
    /\ b64Digest = Null

Encode ==
    /\ b64Digest = Null
    /\ b64Digest' = Str(urlSafeDigest(truncatedHash))
    /\ UNCHANGED <<variant, op, arg, ret, truncatedHash, tables, processed>>

NextEnc == Encode

SpecEnc == InitEnc /\ [][NextEnc]_vars

(***************************************************************************)
(* SpecPair: two callers interleave their calls.  Each calls generateVrsId *)
(* for a variant at any time and, as the form's handleSubmit does,         *)
(* parseVrsId on the identifier it was returned.                           *)
(***************************************************************************)
PairChromosomes ==
    { <<"c", "h", "r", "7">>, <<"7">>,
      <<"c", "h", "r", "M">>, <<"M">>, <<"M", "T">>,
      <<"c", "h", "r", "U", "n">>, <<"U", "n">> }

\* The smallest and the largest position, as numbers.
PairVariants ==
    [chrom : PairChromosomes, pos : {Num(0), Num(MaxPos)},
     ref : Alleles, alt : Alleles]

PairGenerate ==
    \E c \in Callers, v \in PairVariants : CallGenerateVrsId(c, v)

PairParse ==
    \E c \in Callers :
        \E id \in Held(c) : CallParseVrsId(c, id)

NextPair == PairGenerate \/ PairParse

SpecPair == Init /\ [][NextPair]_vars

(***************************************************************************)
(* SpecTables: two callers look up the chromosome and the table of         *)
(* identifiers whose chromosomes differ in letter case and whose digests   *)
(* differ, and of identifiers that are not valid.                          *)
(***************************************************************************)
TableChromosomes ==
    { <<"X">>, <<"x">>, <<"M", "T">>, <<"m", "t">>, <<"M", "t">>, <<"7">>,
      <<"S", "P", "E", "C", "I", "A", "L">> }

TableDigests == { <<"d">>, <<"D">>, <<"a", ":", "b">>, ReadmeDigest }

TableIds ==
    { Str(IdPrefix \o c \o <<":">> \o d) : c \in TableChromosomes, d \in TableDigests }
    \cup { Str(IdPrefix \o <<"X">>), Str(<<"X", ":", "d">>), Str(<<>>) }

ChromosomeLookup ==
    \E c \in Callers, id \in TableIds : CallGetChromosomeFromVrsId(c, id)

TableLookup ==
    \E c \in Callers, id \in TableIds : CallGetSqlTableForVariant(c, id)

NextTables == ChromosomeLookup \/ TableLookup

SpecTables == Init /\ [][NextTables]_vars

(***************************************************************************)
(* SpecTags: two callers validate and parse identifiers that carry "VA" or *)
(* another two-letter tag after "ga4gh:".                                  *)
(***************************************************************************)
Tags == { <<"V", "A">>, <<"X", "X">>, <<"V", "S">>, <<"S", "Q">>, <<"v", "a">>, <<"A", "V">> }

TagIds ==
    { Str(<<"g", "a", "4", "g", "h", ":">> \o t \o <<":">> \o c \o <<":">> \o d) :
        t \in Tags,
        c \in { <<"7">>, <<"X">>, <<"S", "P", "E", "C", "I", "A", "L">> },
        d \in { <<"d">>, <<"a", ":", "b">>, ReadmeDigest } }

TagValidate ==
    \E c \in Callers, id \in TagIds : CallIsValidVrsId(c, id)

TagParse ==
    \E c \in Callers, id \in TagIds : CallParseVrsId(c, id)

NextTags == TagValidate \/ TagParse

SpecTags == Init /\ [][NextTags]_vars

(***************************************************************************)
(* SpecSpecial: two callers generate identifiers of variants with an       *)
(* allele "*", whose fields may contain '-'.                               *)
(***************************************************************************)
SpecialVariants ==
    { v \in [chrom : { <<"7">>, <<"c", "h", "r", "7">>, <<"7", "-", "0">> },
             pos : { Num(0), Num(MaxPos), Str(<<"0", "-", "0">>) },
             ref : { <<"*">>, <<"A">>, <<"0", "-", "*">> },
             alt : { <<"*">>, <<"A">>, <<"*", "-", "A">> }] :
        v.ref = <<"*">> \/ v.alt = <<"*">> }

SpecialGenerate ==
    \E c \in Callers, v \in SpecialVariants : CallGenerateVrsId(c, v)

NextSpecial == SpecialGenerate

SpecSpecial == Init /\ [][NextSpecial]_vars

(***************************************************************************)
(* SpecPos: two callers generate identifiers of variants that differ in    *)
(* how the position is given: a number, its text, a text with a leading    *)
(* zero.                                                                   *)
(***************************************************************************)
PosVariants ==
    [chrom : { <<"c", "h", "r", "7">>, <<"M">> }, pos : Positions,
     ref : { <<"A">>, <<"*">> }, alt : { <<"A">> }]

PosGenerate ==
    \E c \in Callers, v \in PosVariants : CallGenerateVrsId(c, v)

NextPos == PosGenerate

SpecPos == Init /\ [][NextPos]_vars

(***************************************************************************)
(* SpecDb: the database example.  The script "a" runs processVariants on   *)
(* batches of variants and queryVariantByVrsId on identifiers, in any      *)
(* order, until the database holds MaxRecords records.                     *)
(***************************************************************************)
\* The longest batch given to processVariants.
MaxBatch == 2

\* The most records the database holds.
MaxRecords == 3

\* The first variant of variantData; variants that share an identifier; a
\* variant with an allele "*"; a variant whose chromosome is only "chr".
DbVariants ==
    { ReadmeVariant,
      [chrom |-> <<"c", "h", "r", "7">>, pos |-> Num(0), ref |-> <<"A">>, alt |-> <<"A">>],
      [chrom |-> <<"7">>, pos |-> Num(0), ref |-> <<"A">>, alt |-> <<"A">>],
      [chrom |-> <<"M">>, pos |-> Num(0), ref |-> <<"*">>, alt |-> <<"A">>],
      [chrom |-> <<"c", "h", "r">>, pos |-> Num(0), ref |-> <<"A">>, alt |-> <<"A">>] }

Batches == UNION { [1..n -> DbVariants] : n \in 0..MaxBatch }

\* The number of records in all tables.
RECURSIVE RecordCount(_, _)
RecordCount(tbls, names) ==
    IF names = {} THEN 0
    ELSE LET name == CHOOSE n \in names : TRUE
         IN  Len(tbls[name]) + RecordCount(tbls, names \ {name})

\* Identifiers the script queries: those of the variants, 'invalid-vrs-id' of
\* runExample, and a valid identifier of no variant.
DbQueryIds ==
    { Str(generateVrsId(v.chrom, v.pos, v.ref, v.alt).val) : v \in DbVariants }
    \cup { Str(<<"i", "n", "v", "a", "l", "i", "d", "-", "v", "r", "s", "-", "i", "d">>),
           Str(IdPrefix \o <<"X", ":", "d">>) }

ProcessVariants ==
    \E variants \in Batches :
        LET done == processVariants(tables, processed, variants)
        IN  /\ RecordCount(tables, DOMAIN tables) + Len(variants) <= MaxRecords
            /\ tables' = done.tables
            /\ processed' = done.processed
            /\ variant' = [variant EXCEPT !["a"] = NoVariant]
            /\ op' = [op EXCEPT !["a"] = "processVariants"]
            /\ arg' = [arg EXCEPT !["a"] = variants]
            /\ ret' = [ret EXCEPT !["a"] = done.ret]
            /\ UNCHANGED <<truncatedHash, b64Digest>>

QueryVariant ==
    \E vrsId \in DbQueryIds :
        LET done == queryVariantByVrsId(tables, vrsId)
        IN  /\ tables' = done.tables
            /\ variant' = [variant EXCEPT !["a"] = NoVariant]
            /\ op' = [op EXCEPT !["a"] = "queryVariantByVrsId"]
            /\ arg' = [arg EXCEPT !["a"] = vrsId]
            /\ ret' = [ret EXCEPT !["a"] = done.ret]
            /\ UNCHANGED <<truncatedHash, b64Digest, processed>>

NextDb == ProcessVariants \/ QueryVariant

SpecDb == Init /\ [][NextDb]_vars

(***************************************************************************)
(* SpecNorm: two callers normalise chromosome names, given ones and names  *)
(* normalizeChromosome has returned, and generate identifiers for returned *)
(* names.                                                                  *)
(***************************************************************************)
NormChromosomes ==
    { <<"c", "h", "r", "7">>, <<"7">>,
      <<"c", "h", "r", "M">>, <<"M">>, <<"M", "T">>,
      <<"c", "h", "r", "U", "n">>, <<"U", "n">>, <<"U", "N">>,
      <<"c", "h", "r">>, <<>>, <<"C", "h", "r", "X">>,
      <<"c", "h", "r", "c", "h", "r", "7">>,
      <<"c", "h", "r", "c", "h", "r", "M">> }

\* The names normalizeChromosome has returned to a caller.
Returned ==
    { ret[d].val : d \in {e \in Callers : op[e] = "normalizeChromosome"} }

NormalizeGiven ==
    \E c \in Callers, chrom \in NormChromosomes : CallNormalizeChromosome(c, chrom)

NormalizeReturned ==
    \E c \in Callers :
        \E chrom \in Returned : CallNormalizeChromosome(c, chrom)

GenerateReturned ==
    \E c \in Callers, ref \in { <<"A">>, <<"*">> } :
        \E chrom \in Returned :
            CallGenerateVrsId(c, [chrom |-> chrom, pos |-> Num(0),
                                  ref |-> ref, alt |-> <<"A">>])

NextNorm == NormalizeGiven \/ NormalizeReturned \/ GenerateReturned

SpecNorm == Init /\ [][NextNorm]_vars

(***************************************************************************)
(* Properties                                                              *)
(***************************************************************************)
Colon == <<":">>

Star == <<"*">>

Dash == <<"-">>

\* The 64 characters of URL-safe base64, in the order of their values.
UrlSafeAlphabet ==
    [i \in 1..64 |-> IF Base64Alphabet[i] = "+" THEN "-"
                     ELSE IF Base64Alphabet[i] = "/" THEN "_"
                     ELSE Base64Alphabet[i]]

UrlSafeChars == {UrlSafeAlphabet[i] : i \in 1..64}

\* The model hashes only payloads the table has.
PayloadsCovered ==
    \A c \in Callers :
        (op[c] = "generateVrsId" /\ arg[c].ref # Star /\ arg[c].alt # Star) =>
            \E e \in SHA512Table :
                e[1] = payload(normalizeChromosome(arg[c].chrom), arg[c].pos,
                               arg[c].ref, arg[c].alt)

\* C1: every call of normalizeChromosome returns a value (it does not throw):
\* the input without one leading lowercase "chr" (an input that does not start
\* with exactly "chr" is kept whole), where a remainder "M" or "MT" gives "MT",
\* a remainder "Un" gives "UN", and any other remainder is returned unchanged.
C1_NormalizeContract ==
    \A c \in Callers :
        op[c] = "normalizeChromosome" =>
            LET input == arg[c]
                hasPrefix == /\ Len(input) >= 3
                             /\ input[1] = "c" /\ input[2] = "h" /\ input[3] = "r"
                remainder == IF hasPrefix THEN SubSeq(input, 4, Len(input)) ELSE input
                toMT == remainder \in {<<"M">>, <<"M", "T">>}
                toUN == remainder = <<"U", "n">>
            IN  /\ ~ret[c].threw
                /\ toMT => ret[c].val = <<"M", "T">>
                /\ toUN => ret[c].val = <<"U", "N">>
                /\ (~toMT /\ ~toUN) => ret[c].val = remainder

\* "chrUn" has been normalised to "UN".
C1_Witness ==
    /\ op["a"] = "normalizeChromosome"
    /\ arg["a"] = <<"c", "h", "r", "U", "n">>
    /\ ret["a"] = Return(<<"U", "N">>)

\* C2: every call of generateVrsId returns an identifier and throws nothing;
\* the identifier is "ga4gh:VA:SPECIAL:<canonical chrom>-<pos>-<ref>-<alt>"
\* exactly when ref or alt is "*", and otherwise it is "ga4gh:VA:<canonical
\* chrom>:" followed by a digest of 32 characters without ':'.
C2_GenerateForms ==
    \A c \in Callers :
        op[c] = "generateVrsId" =>
            LET v == arg[c]
                id == ret[c].val
                canon == normalizeChromosome(v.chrom)
                isSpecial == v.ref = Star \/ v.alt = Star
                special == <<"g", "a", "4", "g", "h", ":", "V", "A", ":",
                             "S", "P", "E", "C", "I", "A", "L", ":">>
                           \o canon \o Dash \o Interpolate(v.pos)
                           \o Dash \o v.ref \o Dash \o v.alt
                head == <<"g", "a", "4", "g", "h", ":", "V", "A", ":">>
                        \o canon \o Colon
                digest == SubSeq(id, Len(head) + 1, Len(id))
            IN  /\ ~ret[c].threw
                /\ isSpecial <=> id = special
                /\ ~isSpecial =>
                      /\ startsWith(id, head)
                      /\ Len(digest) = 32
                      /\ \A i \in 1..Len(digest) : digest[i] # ":"

\* generateVrsId("chrM", "01", "*", "A") has returned the special form.
C2_Witness ==
    /\ op["a"] = "generateVrsId"
    /\ arg["a"] = [chrom |-> <<"c", "h", "r", "M">>, pos |-> Str(<<"0", "1">>),
                   ref |-> Star, alt |-> <<"A">>]
    /\ ret["a"] = Return(<<"g", "a", "4", "g", "h", ":", "V", "A", ":",
                           "S", "P", "E", "C", "I", "A", "L", ":",
                           "M", "T", "-", "0", "1", "-", "*", "-", "A">>)

\* C3: for a call of generateVrsId with neither allele "*", the identifier is
\* "ga4gh:VA:<canonical chrom>:" followed by 32 URL-safe base64 characters
\* that decode, four characters to three bytes, to the first 24 bytes of the
\* SHA-512 hash of "<canonical chrom>:<pos>:<ref>:<alt>"; and
\* generateVrsId("chr7", 55174772, "GGAATTAAGAGAAGC", "") is
\* "ga4gh:VA:7:v9TQXvNOQeG1vNRVJCWlD_a1tRf_m2AP".
C3_DigestIsTruncatedSha512 ==
    \A c \in Callers :
        (op[c] = "generateVrsId" /\ arg[c].ref # Star /\ arg[c].alt # Star) =>
            LET v == arg[c]
                id == ret[c].val
                canon == normalizeChromosome(v.chrom)
                data == canon \o Colon \o Interpolate(v.pos) \o Colon
                        \o v.ref \o Colon \o v.alt
                bytes == sha512(data)
                head == <<"g", "a", "4", "g", "h", ":", "V", "A", ":">>
                        \o canon \o Colon
                digest == SubSeq(id, Len(head) + 1, Len(id))
                value(ch) == (CHOOSE k \in 1..64 : UrlSafeAlphabet[k] = ch) - 1
            IN  /\ startsWith(id, head)
                /\ Len(bytes) = 64
                /\ Len(digest) = 32
                /\ \A i \in 1..Len(digest) : digest[i] \in UrlSafeChars
                /\ \A g \in 0..7 :
                      value(digest[4 * g + 1]) * 262144
                        + value(digest[4 * g + 2]) * 4096
                        + value(digest[4 * g + 3]) * 64
                        + value(digest[4 * g + 4])
                      = bytes[3 * g + 1] * 65536 + bytes[3 * g + 2] * 256
                        + bytes[3 * g + 3]
                /\ v = ReadmeVariant => id = <<"g", "a", "4", "g", "h", ":", "V", "A", ":",
                                               "7", ":">> \o ReadmeDigest

\* The README's call has returned the README's identifier.
C3_Witness ==
    /\ op["a"] = "generateVrsId"
    /\ arg["a"] = ReadmeVariant
    /\ ret["a"] = Return(IdPrefix \o <<"7", ":">> \o ReadmeDigest)

\* C4: the encoding of every 24-byte value has exactly 32 characters, each a
\* letter, a digit, '-' or '_', and none of them '=', '+', '/' or ':'.
C4_DigestShape ==
    (Len(truncatedHash) = TruncatedBytes /\ b64Digest # Null) =>
        /\ Len(b64Digest.s) = 32
        /\ \A i \in 1..Len(b64Digest.s) :
              /\ b64Digest.s[i] \in UrlSafeChars
              /\ b64Digest.s[i] \notin {"=", "+", "/", ":"}

\* A 24-byte value whose base64 text had both '+' and '/' has been encoded.
C4_Witness ==
    /\ Len(truncatedHash) = TruncatedBytes
    /\ b64Digest # Null
    /\ \E i, j \in 1..Len(b64Digest.s) :
          /\ i < j
          /\ b64Digest.s[i] = "-" /\ b64Digest.s[j] = "-"
          /\ \E k \in 1..Len(b64Digest.s) : b64Digest.s[k] = "_"

\* The caller holds an identifier it generated, and the variant it is for.
HasGenerated(c) == variant[c] # NoVariant

\* The identifier the caller generated for variant[c].
Generated(c) == IF op[c] = "generateVrsId" THEN ret[c].val ELSE arg[c].s

C6_ChrPrefixEquivalence ==
    \A c, d \in Callers :
        ( /\ HasGenerated(c) /\ HasGenerated(d)
          /\ variant[c].pos = variant[d].pos
          /\ variant[c].ref = variant[d].ref
          /\ variant[c].alt = variant[d].alt ) =>
            /\ ( /\ variant[c].chrom = <<"c", "h", "r">> \o variant[d].chrom
                 /\ ~startsWith(variant[d].chrom, <<"c", "h", "r">>) )
               => Generated(c) = Generated(d)
            /\ ( /\ variant[c].chrom = <<"c", "h", "r", "M">>
                 /\ variant[d].chrom = <<"M", "T">> )
               => Generated(c) = Generated(d)

\* The callers hold the identifiers of "chrM" and of "MT" for the same
\* position and alleles, the reference allele being "*".
C6_Witness ==
    /\ HasGenerated("a") /\ HasGenerated("b")
    /\ variant["a"].chrom = <<"c", "h", "r", "M">>
    /\ variant["b"].chrom = <<"M", "T">>
    /\ variant["a"].pos = variant["b"].pos
    /\ variant["a"].ref = Star /\ variant["b"].ref = Star
    /\ variant["a"].alt = variant["b"].alt
    /\ Generated("a") = Generated("b")

\* The canonical tuple of a variant: canonical chromosome, position text,
\* reference and alternate allele.
CanonicalTuple(v) ==
    <<normalizeChromosome(v.chrom), Interpolate(v.pos), v.ref, v.alt>>

\* C7: two variants, neither with an allele "*", whose canonical tuples differ
\* in at least one field have different identifiers, fields containing ':'
\* included.
C7_DistinctTuplesDistinctIds ==
    \A c, d \in Callers :
        ( /\ HasGenerated(c) /\ HasGenerated(d)
          /\ variant[c].ref # Star /\ variant[c].alt # Star
          /\ variant[d].ref # Star /\ variant[d].alt # Star
          /\ CanonicalTuple(variant[c]) # CanonicalTuple(variant[d]) ) =>
            Generated(c) # Generated(d)

\* C8: every identifier generateVrsId returns is accepted by isValidVrsId, and
\* parseVrsId gives back the canonical chromosome it was built from.
C8_RoundTrip ==
    \A c \in Callers :
        HasGenerated(c) =>
            /\ op[c] = "isValidVrsId" => ret[c].val = TRUE
            /\ op[c] = "parseVrsId" =>
                  /\ ~ret[c].threw
                  /\ ret[c].val.chromosome = normalizeChromosome(variant[c].chrom)

\* The strings "ga4gh:VA:" + chrom + ":" + rest with chrom one or more
\* characters other than ':' and rest non-empty, of characters outside excluded.
HasIdForm(v, excluded) ==
    /\ v.t = "string"
    /\ Len(v.s) >= 9
    /\ \E k \in 1..Len(v.s) :
          /\ SubSeq(v.s, 1, 9) = <<"g", "a", "4", "g", "h", ":", "V", "A", ":">>
          /\ k >= 11
          /\ k < Len(v.s)
          /\ v.s[k] = ":"
          /\ \A i \in 10..(k - 1) : v.s[i] # ":"
          /\ \A i \in (k + 1)..Len(v.s) : v.s[i] \notin excluded

\* C9 as stated: isValidVrsId returns true exactly for "ga4gh:VA:" + chrom +
\* ":" + rest with chrom one or more characters other than ':' and rest any
\* non-empty string of any characters.
C9_ValidExactlyIdForm ==
    \A c \in Callers :
        op[c] = "isValidVrsId" =>
            /\ ~ret[c].threw
            /\ ret[c].val <=> HasIdForm(arg[c], {})

\* C9: isValidVrsId always returns, and returns true exactly for "ga4gh:VA:" +
\* chrom + ":" + rest with chrom one or more characters other than ':' and
\* rest a non-empty string without line terminators; it returns false for
\* every other input, the empty string and null included.
C9_ValidExactlyIdFormOnOneLine ==
    \A c \in Callers :
        op[c] = "isValidVrsId" =>
            /\ ~ret[c].threw
            /\ ret[c].val <=> HasIdForm(arg[c], LineTerminators)

\* isValidVrsId has accepted an identifier whose chromosome holds a line feed
\* and whose rest holds a ':'.
C9_Witness ==
    /\ op["a"] = "isValidVrsId"
    /\ arg["a"] = Str(IdPrefix \o <<"7", "\n", ":", "a", ":", "b">>)
    /\ ret["a"] = Return(TRUE)

\* C10: for an identifier isValidVrsId accepts, parseVrsId returns the text
\* between the second and the third ':' as chromosome, all the text after the
\* third ':' as digest and "VA" as type, and getChromosomeFromVrsId returns
\* that chromosome.
C10_ParseComponents ==
    \A c \in Callers :
        (op[c] \in {"parseVrsId", "getChromosomeFromVrsId"} /\ isValidVrsId(arg[c])) =>
            LET s == arg[c].s
                colons == {i \in 1..Len(s) : s[i] = ":"}
                nth(n) == CHOOSE i \in colons :
                              Cardinality({j \in colons : j < i}) = n - 1
                chromosome == SubSeq(s, nth(2) + 1, nth(3) - 1)
                digest == SubSeq(s, nth(3) + 1, Len(s))
            IN  /\ Cardinality(colons) >= 3
                /\ ~ret[c].threw
                /\ op[c] = "parseVrsId" =>
                      ret[c].val = [chromosome |-> chromosome,
                                    digest |-> digest,
                                    type |-> <<"V", "A">>]
                /\ op[c] = "getChromosomeFromVrsId" =>
                      /\ ret[c].val = chromosome
                      /\ ret[c].val = parseVrsId(arg[c]).val.chromosome

\* parseVrsId has split "ga4gh:VA:7:a:b" into chromosome "7" and digest "a:b".
C10_Witness ==
    /\ op["a"] = "parseVrsId"
    /\ arg["a"] = Str(IdPrefix \o <<"7", ":", "a", ":", "b">>)
    /\ ret["a"] = Return([chromosome |-> <<"7">>,
                          digest |-> <<"a", ":", "b">>,
                          type |-> <<"V", "A">>])


\* The functions that take an identifier and throw on an invalid one.
ThrowingFunctions ==
    {"parseVrsId", "getChromosomeFromVrsId", "getSqlTableForVariant",
     "buildVariantQuery"}

\* The number of ':' in a string.
ColonCount(s) == Cardinality({i \in 1..Len(s) : s[i] = ":"})

\* C11: parseVrsId, getChromosomeFromVrsId, getSqlTableForVariant and
\* buildVariantQuery throw exactly when isValidVrsId rejects the identifier,
\* in particular for the empty string, a string without the prefix
\* "ga4gh:VA:" and a string with fewer than three ':', and when they return,
\* the result is complete: a non-empty chromosome and digest with type "VA",
\* a non-empty chromosome, a table name longer than its fixed prefix, a query
\* text with both parameters.
C11_FailExactlyWhenInvalid ==
    \A c \in Callers :
        op[c] \in ThrowingFunctions =>
            LET id == arg[c]
                r == ret[c].val
            IN  /\ ret[c].threw <=> ~isValidVrsId(id)
                /\ id = Str(<<>>) => ret[c].threw
                /\ (id.t = "string"
                    /\ ~startsWith(id.s, <<"g", "a", "4", "g", "h", ":", "V", "A", ":">>))
                   => ret[c].threw
                /\ (id.t = "string" /\ ColonCount(id.s) < 3) => ret[c].threw
                /\ (~ret[c].threw /\ op[c] = "parseVrsId") =>
                      /\ DOMAIN r = {"chromosome", "digest", "type"}
                      /\ r.chromosome # <<>> /\ r.digest # <<>>
                      /\ r.type = <<"V", "A">>
                /\ (~ret[c].threw /\ op[c] = "getChromosomeFromVrsId") => r # <<>>
                /\ (~ret[c].threw /\ op[c] = "getSqlTableForVariant") =>
                      Len(r) > Len(TablePrefix)
                /\ (~ret[c].threw /\ op[c] = "buildVariantQuery") =>
                      /\ DOMAIN r = {"query", "params"}
                      /\ DOMAIN r.params = {"vrsId", "chromosome"}
                      /\ r.query # <<>>
                      /\ r.params.vrsId # <<>> /\ r.params.chromosome # <<>>

\* buildVariantQuery has thrown on "ga4gh:VA:7", an identifier with two ':'.
C11_Witness ==
    /\ op["a"] = "buildVariantQuery"
    /\ arg["a"] = Str(IdPrefix \o <<"7">>)
    /\ ret["a"] = Throw("Invalid VRS ID")

\* The text between the second and the third ':' of an identifier with at
\* least three ':'.
ChromosomeSegment(s) ==
    LET colons == {i \in 1..Len(s) : s[i] = ":"}
        nth(n) == CHOOSE i \in colons : Cardinality({j \in colons : j < i}) = n - 1
    IN  SubSeq(s, nth(2) + 1, nth(3) - 1)

\* C12: for a valid identifier, getSqlTableForVariant returns "variants_chr"
\* followed by the lowercased result of getChromosomeFromVrsId on the same
\* identifier; two valid identifiers whose chromosome segments are equal up
\* to letter case have the same table name, whatever their digests.
C12_TableFromLowercasedChromosome ==
    \A c, d \in Callers :
        /\ ( /\ op[c] = "getSqlTableForVariant"
             /\ op[d] = "getChromosomeFromVrsId"
             /\ arg[c] = arg[d]
             /\ ~ret[d].threw ) =>
               /\ ~ret[c].threw
               /\ ret[c].val = <<"v", "a", "r", "i", "a", "n", "t", "s", "_", "c", "h", "r">>
                               \o toLowerCase(ret[d].val)
        /\ ( /\ op[c] = "getSqlTableForVariant" /\ ~ret[c].threw
             /\ op[d] = "getSqlTableForVariant" /\ ~ret[d].threw
             /\ toLowerCase(ChromosomeSegment(arg[c].s))
                  = toLowerCase(ChromosomeSegment(arg[d].s)) ) =>
               ret[c].val = ret[d].val

\* The tables of "ga4gh:VA:X:d" and of "ga4gh:VA:x:a:b" have been looked up
\* and both are "variants_chrx".
C12_Witness ==
    /\ op["a"] = "getSqlTableForVariant"
    /\ arg["a"] = Str(IdPrefix \o <<"X", ":", "d">>)
    /\ op["b"] = "getSqlTableForVariant"
    /\ arg["b"] = Str(IdPrefix \o <<"x", ":", "a", ":", "b">>)
    /\ ret["a"] = Return(<<"v", "a", "r", "i", "a", "n", "t", "s", "_", "c", "h", "r", "x">>)
    /\ ret["b"] = ret["a"]

\* s has sub as a contiguous part.
Contains(s, sub) ==
    \E i \in 1..(Len(s) - Len(sub) + 1) : SubSeq(s, i, i + Len(sub) - 1) = sub

FromPublic ==
    <<"F", "R", "O", "M", " ", "p", "u", "b", "l", "i", "c", ".">>

WhereId ==
    <<"W", "H", "E", "R", "E", " ", "i", "d", " ", "=", " ", "@", "v", "r",
      "s", "I", "d">>

AndChromosome ==
    <<"A", "N", "D", " ", "c", "h", "r", "o", "m", "o", "s", "o", "m", "e",
      " ", "=", " ", "@", "c", "h", "r", "o", "m", "o", "s", "o", "m", "e">>

\* C13: for a valid identifier, buildVariantQuery returns the parameters
\* vrsId, the identifier itself, and chromosome, the chromosome
\* getChromosomeFromVrsId extracts, and a query text that is one fixed text
\* with the table name "variants_chr<lowercased chromosome>" inserted after
\* "FROM public."; the text has "WHERE id = @vrsId" and "AND chromosome =
\* @chromosome", and outside the table name it is the same for every
\* identifier.
C13_QueryAndParams ==
    \A c \in Callers :
        (op[c] = "buildVariantQuery" /\ isValidVrsId(arg[c])) =>
            LET id == arg[c].s
                chromosome == ChromosomeSegment(id)
                table == <<"v", "a", "r", "i", "a", "n", "t", "s", "_", "c", "h", "r">>
                         \o toLowerCase(chromosome)
                q == ret[c].val.query
                at == CHOOSE i \in 1..Len(q) :
                          SubSeq(q, i, i + Len(FromPublic) - 1) = FromPublic
                after == at + Len(FromPublic) + Len(table)
            IN  /\ ~ret[c].threw
                /\ ret[c].val.params = [vrsId |-> id, chromosome |-> chromosome]
                /\ chromosome = getChromosomeFromVrsId(arg[c]).val
                /\ Contains(q, FromPublic \o table)
                /\ Contains(q, WhereId)
                /\ Contains(q, AndChromosome)
                /\ SubSeq(q, 1, at + Len(FromPublic) - 1) = QueryHead
                /\ SubSeq(q, after, Len(q)) = QueryTail

\* buildVariantQuery has returned the query on public.variants_chr7 for the
\* README's identifier.
C13_Witness ==
    /\ op["a"] = "buildVariantQuery"
    /\ arg["a"] = Str(IdPrefix \o <<"7", ":">> \o ReadmeDigest)
    /\ ~ret["a"].threw
    /\ ret["a"].val.params.chromosome = <<"7">>
    /\ Contains(ret["a"].val.query, FromPublic \o <<"v", "a", "r", "i", "a", "n", "t", "s", "_", "c", "h", "r", "7", "\n">>)

\* The variant has an allele "*".
IsSpecial(v) == v.ref = Star \/ v.alt = Star

\* A field of the variant contains a line terminator.
HasLineTerminator(v) ==
    \E f \in {normalizeChromosome(v.chrom), Interpolate(v.pos), v.ref, v.alt} :
        \E i \in 1..Len(f) : f[i] \in LineTerminators

\* What C14 says of a caller that works on the special identifier it generated.
SpecialIdReadsBack(c) ==
    LET v == variant[c]
        label == normalizeChromosome(v.chrom) \o Dash \o Interpolate(v.pos)
                 \o Dash \o v.ref \o Dash \o v.alt
    IN  /\ op[c] = "isValidVrsId" => ret[c] = Return(TRUE)
        /\ op[c] = "parseVrsId" =>
              /\ ~ret[c].threw
              /\ ret[c].val.chromosome = <<"S", "P", "E", "C", "I", "A", "L">>
              /\ ret[c].val.digest = label

HasTaggedForm(v) ==
    /\ v.t = "string"
    /\ Len(v.s) >= 9
    /\ SubSeq(v.s, 1, 6) = <<"g", "a", "4", "g", "h", ":">>
    /\ v.s[7] # ":" /\ v.s[8] # ":" /\ v.s[9] = ":"
    /\ \E k \in 11..(Len(v.s) - 1) :
          /\ v.s[k] = ":"
          /\ \A i \in 10..(k - 1) : v.s[i] # ":"
          /\ \A i \in (k + 1)..Len(v.s) : v.s[i] \notin LineTerminators

\* The tag of such an identifier.
TagOf(v) == SubSeq(v.s, 7, 8)

\* C15 as stated: an identifier "ga4gh:<T>:<chrom>:<rest>" with a two-letter
\* tag T other than "VA" is accepted by isValidVrsId, and parseVrsId returns
\* type "VA" for it.
C15_TagNotChecked ==
    \A c \in Callers :
        ( /\ op[c] \in {"isValidVrsId", "parseVrsId"}
          /\ HasTaggedForm(arg[c])
          /\ TagOf(arg[c]) # <<"V", "A">> ) =>
            /\ op[c] = "isValidVrsId" => ret[c] = Return(TRUE)
            /\ op[c] = "parseVrsId" =>
                  (~ret[c].threw /\ ret[c].val.type = <<"V", "A">>)

\* C15: isValidVrsId and parseVrsId require the tag to be "VA": an identifier
\* "ga4gh:<T>:<chrom>:<rest>" with a two-letter tag T other than "VA" is
\* rejected by isValidVrsId and makes parseVrsId throw, and with the tag "VA"
\* it is accepted and parseVrsId returns type "VA".
C15_TagMustBeVA ==
    \A c \in Callers :
        (op[c] \in {"isValidVrsId", "parseVrsId"} /\ HasTaggedForm(arg[c])) =>
            /\ op[c] = "isValidVrsId" =>
                  ret[c] = Return(TagOf(arg[c]) = <<"V", "A">>)
            /\ op[c] = "parseVrsId" =>
                  /\ ret[c].threw <=> TagOf(arg[c]) # <<"V", "A">>
                  /\ ~ret[c].threw => ret[c].val.type = <<"V", "A">>

\* parseVrsId has thrown on "ga4gh:XX:7:d" and isValidVrsId has rejected
\* "ga4gh:VS:X:a:b".
C15_Witness ==
    /\ op["a"] = "parseVrsId"
    /\ arg["a"] = Str(<<"g", "a", "4", "g", "h", ":", "X", "X", ":", "7", ":", "d">>)
    /\ ret["a"] = Throw("Invalid VRS ID")
    /\ op["b"] = "isValidVrsId"
    /\ arg["b"] = Str(<<"g", "a", "4", "g", "h", ":", "V", "S", ":", "X", ":", "a", ":", "b">>)
    /\ ret["b"] = Return(FALSE)

\* A field of the canonical tuple of the variant contains '-'.
HasDash(v) ==
    \E f \in {normalizeChromosome(v.chrom), Interpolate(v.pos), v.ref, v.alt} :
        \E i \in 1..Len(f) : f[i] = "-"

\* C16: two variants with an allele "*" whose canonical tuples differ have the
\* same special identifier only if a field of one of them contains '-'; when
\* no field contains '-' their identifiers differ.  (Pairs with a '-' in a
\* field that do collide exist: C16_Witness.)
C16_SpecialCollisionsNeedDash ==
    \A c, d \in Callers :
        ( /\ op[c] = "generateVrsId" /\ op[d] = "generateVrsId"
          /\ IsSpecial(arg[c]) /\ IsSpecial(arg[d])
          /\ CanonicalTuple(arg[c]) # CanonicalTuple(arg[d]) ) =>
            /\ ret[c].val = ret[d].val => (HasDash(arg[c]) \/ HasDash(arg[d]))
            /\ (~HasDash(arg[c]) /\ ~HasDash(arg[d])) => ret[c].val # ret[d].val

\* ("7-0", 0, "*", "A") and ("7", "0-0", "*", "A") have both been given the
\* identifier "ga4gh:VA:SPECIAL:7-0-0-*-A".
C16_Witness ==
    /\ op["a"] = "generateVrsId" /\ op["b"] = "generateVrsId"
    /\ arg["a"] = [chrom |-> <<"7", "-", "0">>, pos |-> Num(0),
                   ref |-> Star, alt |-> <<"A">>]
    /\ arg["b"] = [chrom |-> <<"7">>, pos |-> Str(<<"0", "-", "0">>),
                   ref |-> Star, alt |-> <<"A">>]
    /\ ret["a"] = ret["b"]
    /\ ret["a"] = Return(SpecialPrefix \o <<"7", "-", "0", "-", "0", "-", "*", "-", "A">>)

\* C17: generateVrsId gives a position n, a non-negative integer, the
\* identifier it gives the decimal text of n, and it gives two different
\* position texts different identifiers, also when they are texts of the same
\* number ("01" and "1"), the other fields being the same.
C17_PositionAsSupplied ==
    \A c, d \in Callers :
        ( /\ op[c] = "generateVrsId" /\ op[d] = "generateVrsId"
          /\ arg[c].chrom = arg[d].chrom
          /\ arg[c].ref = arg[d].ref
          /\ arg[c].alt = arg[d].alt ) =>
            /\ ( /\ arg[c].pos.t = "number"
                 /\ arg[d].pos = Str(NumberToString(arg[c].pos.n)) )
               => ret[c].val = ret[d].val
            /\ ( /\ arg[c].pos.t = "string" /\ arg[d].pos.t = "string"
                 /\ arg[c].pos.s # arg[d].pos.s )
               => ret[c].val # ret[d].val

\* The same variant has been given once with the position 0 and once with
\* the position "0", and has the same digest identifier both times.
C17_Witness ==
    /\ op["a"] = "generateVrsId" /\ op["b"] = "generateVrsId"
    /\ arg["a"] = [chrom |-> <<"c", "h", "r", "7">>, pos |-> Num(0),
                   ref |-> <<"A">>, alt |-> <<"A">>]
    /\ arg["b"] = [chrom |-> <<"c", "h", "r", "7">>, pos |-> Str(<<"0">>),
                   ref |-> <<"A">>, alt |-> <<"A">>]
    /\ ret["a"] = ret["b"]
    /\ Len(ret["a"].val) = 43

\* The records of all tables, each with the name of its table.
StoredRecords ==
    UNION { { [table |-> name, record |-> tables[name][i]] :
                i \in 1..Len(tables[name]) } : name \in DOMAIN tables }

\* C18: every stored record is in the table getSqlTableForVariant names for
\* its id and has the chromosome getChromosomeFromVrsId gives for its id;
\* queryVariantByVrsId on the identifier of a variant processVariants has
\* worked on returns a record with that id; queryVariantByVrsId on an
\* identifier that is not valid returns null and throws nothing.
C18_DatabaseConsistent ==
    /\ \A e \in StoredRecords :
          /\ getSqlTableForVariant(Str(e.record.id)) = Return(e.table)
          /\ getChromosomeFromVrsId(Str(e.record.id)) = Return(e.record.chromosome)
          /\ e.record.chromosome = ChromosomeSegment(e.record.id)
    /\ op["a"] = "queryVariantByVrsId" =>
          /\ ~ret["a"].threw
          /\ (\E v \in processed :
                 arg["a"] = Str(generateVrsId(v.chrom, v.pos, v.ref, v.alt).val))
             => /\ ret["a"].val # Null
                /\ ret["a"].val.id = arg["a"].s
          /\ ~isValidVrsId(arg["a"]) => ret["a"] = Return(Null)

\* A name normalizeChromosome has returned to caller c is a fixed point: a
\* second normalisation returns it unchanged, and generateVrsId, for variants
\* with an allele "*" too if special is TRUE, writes it unchanged between
\* "ga4gh:VA:" and the next ':'.
CanonicalIsFixed(c, special) ==
    \A d \in Callers :
        /\ (op[d] = "normalizeChromosome" /\ arg[d] = ret[c].val)
              => ret[d].val = ret[c].val
        /\ ( /\ op[d] = "generateVrsId"
             /\ arg[d].chrom = ret[c].val
             /\ (special \/ ~IsSpecial(arg[d])) )
              => startsWith(ret[d].val,
                            <<"g", "a", "4", "g", "h", ":", "V", "A", ":">>
                            \o ret[c].val \o <<":">>)

\* C19 as stated: for every input c, normalizeChromosome(normalizeChromosome(c))
\* = normalizeChromosome(c), and generateVrsId keeps a name normalizeChromosome
\* has returned unchanged in the chromosome slot.
C19_NormalizeIdempotent ==
    \A c \in Callers :
        op[c] = "normalizeChromosome" => CanonicalIsFixed(c, TRUE)

\* C19: for every input c that does not start with "chrchr",
\* normalizeChromosome(normalizeChromosome(c)) = normalizeChromosome(c), and
\* generateVrsId, for a variant without an allele "*", keeps the name returned
\* for c unchanged in the chromosome slot.
C19_NormalizeIdempotentOffDoublePrefix ==
    \A c \in Callers :
        ( /\ op[c] = "normalizeChromosome"
          /\ ~startsWith(arg[c], <<"c", "h", "r", "c", "h", "r">>) )
            => CanonicalIsFixed(c, FALSE)

\* "chrM" has been normalised to "MT", and "MT" again to "MT".
C19_Witness ==
    /\ op["a"] = "normalizeChromosome"
    /\ arg["a"] = <<"c", "h", "r", "M">>
    /\ op["b"] = "normalizeChromosome"
    /\ arg["b"] = ret["a"].val
    /\ ret["b"] = Return(<<"M", "T">>)

\* C20: for every identifier isValidVrsId accepts, "ga4gh:VA:" followed by the
\* parsed chromosome, ':' and the parsed digest is the identifier itself; the
\* chromosome is non-empty and has no ':', the digest is non-empty, and the
\* rebuilt text is valid and parses to the same components.
C20_ParseLossless ==
    \A c \in Callers :
        (op[c] = "parseVrsId" /\ isValidVrsId(arg[c])) =>
            LET parsed == ret[c].val
                rebuilt == <<"g", "a", "4", "g", "h", ":", "V", "A", ":">>
                           \o parsed.chromosome \o <<":">> \o parsed.digest
            IN  /\ ~ret[c].threw
                /\ rebuilt = arg[c].s
                /\ Len(parsed.chromosome) > 0
                /\ \A i \in 1..Len(parsed.chromosome) : parsed.chromosome[i] # ":"
                /\ Len(parsed.digest) > 0
                /\ isValidVrsId(Str(rebuilt))
                /\ parseVrsId(Str(rebuilt)) = ret[c]

\* parseVrsId has split an identifier whose chromosome ends in a line feed and
\* whose digest has a ':', and the parts put together give the identifier.
C20_Witness ==
    /\ op["a"] = "parseVrsId"
    /\ arg["a"] = Str(IdPrefix \o <<"7", "\n", ":", "a", ":", "b">>)
    /\ ret["a"] = Return([chromosome |-> <<"7", "\n">>,
                          digest |-> <<"a", ":", "b">>,
                          type |-> <<"V", "A">>])
====
